---- MODULE Spec2Model ----
(***************************************************************************)
(* Model of vivian_airflow_extensions: the Snowflake -> Postgres load      *)
(* cycle (ExtendedPostgresHook and the SnowflakeToPostgres* operators),    *)
(* the S3 bookmark hook and the bookmark operators.                        *)
(*                                                                         *)
(* The relational backend is PostgreSQL reached through psycopg2: a batch  *)
(* of statements run on one connection is one transaction, DDL is          *)
(* transactional, and a statement the backend cannot parse raises like any *)
(* other failing statement.  Statements are kept as records that hold what *)
(* the source interpolates into its f-strings; the backend side (Apply)    *)
(* gives each statement kind its PostgreSQL meaning.                       *)
(***************************************************************************)
EXTENDS Integers, Sequences, FiniteSets, TLC

(***************************************************************************)
(* Bounds of the model.                                                    *)
(***************************************************************************)
MaxId == 2             \* primary-key values of rows are 1..MaxId
MaxTs == 2             \* timestamps are 0..MaxTs ticks
TicksPerSecond == 2    \* sub-second resolution of a timestamp
MaxRuns == 2           \* execute() calls per behaviour

(***************************************************************************)
(* Small helpers.                                                          *)
(***************************************************************************)
Range(s) == {s[i] : i \in 1..Len(s)}

Put(f, k, v) == [x \in (DOMAIN f) \cup {k} |-> IF x = k THEN v ELSE f[x]]

Del(f, k) == [x \in (DOMAIN f) \ {k} |-> f[x]]

Max(S) == CHOOSE m \in S : \A n \in S : n <= m

RECURSIVE SetToSeq(_)
SetToSeq(S) ==
  IF S = {} THEN <<>>
  ELSE LET m == CHOOSE a \in S : TRUE IN <<m>> \o SetToSeq(S \ {m})

RECURSIVE Flatten(_)
Flatten(ss) == IF ss = <<>> THEN <<>> ELSE Head(ss) \o Flatten(Tail(ss))

(***************************************************************************)
(* The names the cycle works with.  The live table of the model is         *)
(* "orders"(id integer primary key, status text, updated_at timestamp).    *)
(***************************************************************************)
LiveTable == "orders"

\* a second live table, loaded by a task of its own
OtherTable == "items"

LiveTables == {LiveTable, OtherTable}

Schema == "public"

NULL == -1             \* SQL NULL in an integer or timestamp column

NullText == "NULL"     \* SQL NULL in a text column

NoDefault == [nextval |-> ""]

IdSeqName == "orders_id_seq"

Ids == 1..MaxId

Stamps == 0..MaxTs

(***************************************************************************)
(* PostgreSQL side: catalog views and name rules.                          *)
(***************************************************************************)

\* the defining fragment of a foreign key that references table t
ForeignKeyDef(t) == "FOREIGN KEY (status) REFERENCES " \o t \o "(name)"

\* the tables a foreign key of the model references: a table no cycle loads,
\* always there, or a live table
ReferencedTables == {"statuses"} \cup LiveTables

\* pg_get_constraintdef(oid): the defining fragment of a constraint; confrel
\* is the table a foreign key references, "" for the other kinds
pg_get_constraintdef(con) ==
  CASE con.contype = "p" -> "PRIMARY KEY (id)"
    [] con.contype = "f" -> ForeignKeyDef(con.confrel)
    [] con.contype = "c" -> "CHECK ((updated_at >= 0))"
    [] OTHER -> ""

\* the constraint kind the backend reads back from a defining fragment
ParseConstraintDef(def) ==
  CASE def = "PRIMARY KEY (id)" -> "p"
    [] def \in {ForeignKeyDef(t) : t \in ReferencedTables} -> "f"
    [] def = "CHECK ((updated_at >= 0))" -> "c"
    [] OTHER -> "?"

\* the table a foreign key's defining fragment names
ParseReferencedTable(def) ==
  IF ParseConstraintDef(def) = "f"
  THEN CHOOSE t \in ReferencedTables : def = ForeignKeyDef(t)
  ELSE ""

\* pg_indexes.indexdef: the full CREATE INDEX statement of an index
pg_indexdef(ix, table) ==
  (IF ix.unique THEN "CREATE UNIQUE INDEX " ELSE "CREATE INDEX ")
    \o ix.indexname \o " ON " \o Schema \o "." \o table
    \o " USING btree (" \o ix.col \o ")"

\* what may follow  create index "n" on "t"  in the backend's grammar
IndexParameterForms == {"(" \o c \o ")" : c \in {"id", "status", "updated_at"}}
  \cup {"USING btree (" \o c \o ")" : c \in {"id", "status", "updated_at"}}

\* the options CREATE SEQUENCE accepts
CreateSequenceOptions ==
  {"increment", "minvalue", "maxvalue", "start", "cache", "cycle", "owned by"}

\* the name the backend chooses for an index copied by LIKE ... INCLUDING ALL
GeneratedIndexName(table, ix) ==
  IF ix.backs # "" /\ ix.col = "id" THEN table \o "_pkey"
  ELSE table \o "_" \o ix.col \o "_idx"

\* every relation name in use: tables, indexes and sequences share a namespace
RelationNames(d) ==
  (DOMAIN d.tables)
    \cup UNION {{ix.indexname : ix \in d.tables[t].indexes} : t \in DOMAIN d.tables}
    \cup (DOMAIN d.sequences)

ColumnNames(tbl) == {tbl.columns[i].column_name : i \in 1..Len(tbl.columns)}

(***************************************************************************)
(* PostgreSQL side: the effect of one statement on a catalog d.            *)
(* A catalog is [tables, sequences]; tables maps a table name to           *)
(* [columns, rows, constraints, indexes], sequences maps a sequence name   *)
(* to its properties.  Each Do* operator returns [ok, db]; ok = FALSE is   *)
(* the backend raising on that statement.                                  *)
(***************************************************************************)
Ok(d) == [ok |-> TRUE, db |-> d]

Raise(d) == [ok |-> FALSE, db |-> d]

HasPrimaryKey(tbl) == \E c \in tbl.constraints : c.contype = "p"

UniqueIds(rows) == \A r1, r2 \in rows : r1.id = r2.id => r1 = r2

CheckHolds(rows) == \A r \in rows : r.updated_at = NULL \/ r.updated_at >= 0

\* drop table if exists "name" cascade: the table goes, and with it what
\* depends on it: the sequences it owns and the foreign keys that reference it
DoDropTable(c, d) ==
  IF c.name \notin DOMAIN d.tables THEN Ok(d)
  ELSE Ok([tables |-> [t \in DOMAIN d.tables \ {c.name} |->
                        [d.tables[t] EXCEPT !.constraints = {x \in @ : x.confrel # c.name}]],
           sequences |-> [s \in {x \in DOMAIN d.sequences : d.sequences[x].owned_by # c.name}
                            |-> d.sequences[s]]])

\* a variant that copies the rows as well, as `create table ... as table` would
DoCreateTableLikeWithData(c, d) ==
  IF c.like \notin DOMAIN d.tables \/ c.name \in RelationNames(d) THEN Raise(d)
  ELSE LET src == d.tables[c.like]
           newIx == {[indexname |-> GeneratedIndexName(c.name, ix), col |-> ix.col,
                      unique |-> ix.unique,
                      backs |-> IF ix.backs = "" THEN "" ELSE GeneratedIndexName(c.name, ix)]
                     : ix \in src.indexes}
           newCon == {con \in src.constraints : con.contype = "c"}
                     \cup {[conname |-> GeneratedIndexName(c.name, ix),
                            contype |-> (CHOOSE con \in src.constraints : con.conname = ix.backs).contype,
                            confrel |-> ""]
                           : ix \in {x \in src.indexes : x.backs # ""}}
       IN IF \E ix \in newIx : ix.indexname \in RelationNames(d) THEN Raise(d)
          ELSE Ok([d EXCEPT !.tables = Put(d.tables, c.name,
                     [columns |-> src.columns, rows |-> src.rows,
                      constraints |-> newCon, indexes |-> newIx])])

\* create table "name" (like "like" including all)
DoCreateTableLike(c, d) ==
  IF c.like \notin DOMAIN d.tables \/ c.name \in RelationNames(d) THEN Raise(d)
  ELSE LET src == d.tables[c.like]
           newIx == {[indexname |-> GeneratedIndexName(c.name, ix), col |-> ix.col,
                      unique |-> ix.unique,
                      backs |-> IF ix.backs = "" THEN "" ELSE GeneratedIndexName(c.name, ix)]
                     : ix \in src.indexes}
           newCon == {con \in src.constraints : con.contype = "c"}
                     \cup {[conname |-> GeneratedIndexName(c.name, ix),
                            contype |-> (CHOOSE con \in src.constraints : con.conname = ix.backs).contype,
                            confrel |-> ""]
                           : ix \in {x \in src.indexes : x.backs # ""}}
       IN IF \E ix \in newIx : ix.indexname \in RelationNames(d) THEN Raise(d)
          ELSE Ok([d EXCEPT !.tables = Put(d.tables, c.name,
                     [columns |-> src.columns, rows |-> {},
                      constraints |-> newCon, indexes |-> newIx])])

\* drop sequence if exists "name" cascade
DoDropSequence(c, d) ==
  IF c.name \notin DOMAIN d.sequences THEN Ok(d)
  ELSE Ok([tables |-> [t \in DOMAIN d.tables |->
                        [d.tables[t] EXCEPT !.columns =
                           [i \in 1..Len(d.tables[t].columns) |->
                              IF d.tables[t].columns[i].column_default.nextval = c.name
                              THEN [d.tables[t].columns[i] EXCEPT !.column_default = NoDefault]
                              ELSE d.tables[t].columns[i]]]],
           sequences |-> Del(d.sequences, c.name)])

\* create sequence "name" <option value>...
DoCreateSequence(c, d) ==
  IF ~(Range(c.options) \subseteq CreateSequenceOptions) \/ c.name \in RelationNames(d)
  THEN Raise(d)
  ELSE Ok([d EXCEPT !.sequences = Put(d.sequences, c.name,
             [increment_by |-> c.seq.increment, min_value |-> c.seq.minvalue,
              max_value |-> c.seq.maxvalue, last_value |-> c.seq.last,
              cycle |-> c.seq.cycle, owned_by |-> ""])])

\* alter table "table" alter column "column" set default nextval('"sequence"')
DoSetDefault(c, d) ==
  IF c.table \notin DOMAIN d.tables \/ c.sequence \notin DOMAIN d.sequences
     \/ c.column \notin ColumnNames(d.tables[c.table])
  THEN Raise(d)
  ELSE Ok([d EXCEPT !.tables[c.table].columns =
             [i \in 1..Len(@) |->
                IF @[i].column_name = c.column
                THEN [@[i] EXCEPT !.column_default = [nextval |-> c.sequence]]
                ELSE @[i]]])

\* alter table [if exists] "table" add constraint "name" <definition>
DoAddConstraint(c, d) ==
  IF c.table \notin DOMAIN d.tables THEN (IF c.if_exists THEN Ok(d) ELSE Raise(d))
  ELSE LET tbl == d.tables[c.table]
           kind == ParseConstraintDef(c.definition)
           con == [conname |-> c.name, contype |-> kind,
                   confrel |-> ParseReferencedTable(c.definition)]
       IN CASE kind = "?" \/ (\E x \in tbl.constraints : x.conname = c.name) -> Raise(d)
            [] kind = "f" /\ con.confrel \in LiveTables \ DOMAIN d.tables -> Raise(d)
            [] kind = "p" ->
                 IF HasPrimaryKey(tbl) \/ c.name \in RelationNames(d)
                    \/ ~UniqueIds(tbl.rows) \/ (\E r \in tbl.rows : r.id = NULL)
                 THEN Raise(d)
                 ELSE Ok([d EXCEPT !.tables[c.table].constraints = @ \cup {con},
                                   !.tables[c.table].indexes = @ \cup
                                      {[indexname |-> c.name, col |-> "id",
                                        unique |-> TRUE, backs |-> c.name]}])
            [] kind = "c" ->
                 IF ~CheckHolds(tbl.rows) THEN Raise(d)
                 ELSE Ok([d EXCEPT !.tables[c.table].constraints = @ \cup {con}])
            [] OTHER -> Ok([d EXCEPT !.tables[c.table].constraints = @ \cup {con}])

\* alter table "table" drop constraint if exists "name"
DoDropConstraint(c, d) ==
  IF c.table \notin DOMAIN d.tables THEN Raise(d)
  ELSE Ok([d EXCEPT !.tables[c.table].constraints = {x \in @ : x.conname # c.name},
                    !.tables[c.table].indexes = {x \in @ : x.backs # c.name}])

\* drop index if exists "name"
DoDropIndex(c, d) ==
  LET owners == {t \in DOMAIN d.tables : \E ix \in d.tables[t].indexes : ix.indexname = c.name}
  IN IF owners = {} THEN Ok(d)
     ELSE LET t == CHOOSE x \in owners : TRUE
              ix == CHOOSE x \in d.tables[t].indexes : x.indexname = c.name
          IN IF ix.backs # "" THEN Raise(d)
             ELSE Ok([d EXCEPT !.tables[t].indexes = @ \ {ix}])

\* alter table if exists "name" rename to "to"
DoRenameTable(c, d) ==
  IF c.name \notin DOMAIN d.tables THEN Ok(d)
  ELSE IF c.to \in RelationNames(d) THEN Raise(d)
  ELSE Ok([tables |-> [t \in DOMAIN Put(Del(d.tables, c.name), c.to, d.tables[c.name]) |->
                        [Put(Del(d.tables, c.name), c.to, d.tables[c.name])[t]
                           EXCEPT !.constraints =
                             {IF x.confrel = c.name THEN [x EXCEPT !.confrel = c.to] ELSE x
                              : x \in @}]],
           sequences |-> [s \in DOMAIN d.sequences |->
                            IF d.sequences[s].owned_by = c.name
                            THEN [d.sequences[s] EXCEPT !.owned_by = c.to]
                            ELSE d.sequences[s]]])

\* create index "name" on "table" <definition>
DoCreateIndex(c, d) ==
  IF c.definition \notin IndexParameterForms \/ c.table \notin DOMAIN d.tables
     \/ c.name \in RelationNames(d)
  THEN Raise(d)
  ELSE LET col == CHOOSE x \in {"id", "status", "updated_at"} :
                     c.definition \in {"(" \o x \o ")", "USING btree (" \o x \o ")"}
       IN Ok([d EXCEPT !.tables[c.table].indexes = @ \cup
                 {[indexname |-> c.name, col |-> col, unique |-> FALSE, backs |-> ""]}])

\* alter sequence "name" rename to "to"
DoRenameSequence(c, d) ==
  IF c.name \notin DOMAIN d.sequences \/ c.to \in RelationNames(d) THEN Raise(d)
  ELSE Ok([tables |-> [t \in DOMAIN d.tables |->
                        [d.tables[t] EXCEPT !.columns =
                           [i \in 1..Len(d.tables[t].columns) |->
                              IF d.tables[t].columns[i].column_default.nextval = c.name
                              THEN [d.tables[t].columns[i] EXCEPT !.column_default = [nextval |-> c.to]]
                              ELSE d.tables[t].columns[i]]]],
           sequences |-> Put(Del(d.sequences, c.name), c.to, d.sequences[c.name])])

\* the value a column takes when the insert's column list leaves it out
ColumnNull(col) == IF col = "status" THEN NullText ELSE NULL

HasDuplicates(q) == \E i, j \in 1..Len(q) : i # j /\ q[i] = q[j]

HasUniqueIndexOn(tbl, cols) ==
  Len(cols) = 1 /\ \E ix \in tbl.indexes : ix.unique /\ ix.col = cols[1]

NextvalColumn(tbl, col) ==
  \E i \in 1..Len(tbl.columns) :
     tbl.columns[i].column_name = col /\ tbl.columns[i].column_default.nextval # ""

\* one row of  insert ... select ... [on conflict (...) do update set ... [where ...]]
\* st is [ok, rows, last]: the target's rows so far and the identity sequence's value
RECURSIVE InsertRows(_, _, _, _)
InsertRows(c, tbl, todo, st) ==
  IF todo = <<>> \/ ~st.ok THEN st
  ELSE LET s == Head(todo)
           all == c.columns = <<"*">>
           idGiven == all \/ "id" \in Range(c.columns)
           idGen == ~idGiven /\ NextvalColumn(tbl, "id")
           p == [id |-> IF idGiven THEN s.id ELSE IF idGen THEN st.last + 1 ELSE NULL,
                 status |-> IF all \/ "status" \in Range(c.columns) THEN s.status
                            ELSE ColumnNull("status"),
                 updated_at |-> IF all \/ "updated_at" \in Range(c.columns) THEN s.updated_at
                                ELSE ColumnNull("updated_at")]
           last == IF idGen THEN st.last + 1 ELSE st.last
           hit == {e \in st.rows : e.id = p.id}
       IN CASE HasPrimaryKey(tbl) /\ p.id = NULL -> [st EXCEPT !.ok = FALSE]
            [] hit # {} /\ HasPrimaryKey(tbl) /\ c.conflict = <<>> -> [st EXCEPT !.ok = FALSE]
            [] hit # {} /\ HasPrimaryKey(tbl) ->
                 LET e == CHOOSE x \in hit : TRUE
                     pass == c.guard = ""
                             \/ (p[c.guard] # NULL /\ e[c.guard] # NULL /\ p[c.guard] >= e[c.guard])
                     upd == [id |-> IF "id" \in Range(c.set) THEN p.id ELSE e.id,
                             status |-> IF "status" \in Range(c.set) THEN p.status ELSE e.status,
                             updated_at |-> IF "updated_at" \in Range(c.set)
                                            THEN p.updated_at ELSE e.updated_at]
                 IN InsertRows(c, tbl, Tail(todo),
                      [ok |-> TRUE, last |-> last,
                       rows |-> IF pass THEN (st.rows \ {e}) \cup {upd} ELSE st.rows])
            [] OTHER ->
                 InsertRows(c, tbl, Tail(todo),
                      [ok |-> TRUE, last |-> last, rows |-> st.rows \cup {p}])

\* the catalog after the statement's rows r went in
InsertOutcome(c, d, seqName, r) ==
  IF ~r.ok THEN Raise(d)
  ELSE Ok([tables |-> [d.tables EXCEPT ![c.table].rows = r.rows],
           sequences |-> IF seqName \in DOMAIN d.sequences
                         THEN [d.sequences EXCEPT ![seqName].last_value = r.last]
                         ELSE d.sequences])

\* insert into "table" [(columns)] select columns from "from" [on conflict ...]
DoInsert(c, d) ==
  IF c.table \notin DOMAIN d.tables \/ c.from \notin DOMAIN d.tables THEN Raise(d)
  ELSE LET tbl == d.tables[c.table]
           src == d.tables[c.from]
           named == IF c.columns = <<"*">> THEN {} ELSE Range(c.columns)
           seqName == tbl.columns[1].column_default.nextval
           last0 == IF seqName \in DOMAIN d.sequences
                    THEN d.sequences[seqName].last_value ELSE 0
       IN IF ~(named \subseteq ColumnNames(tbl) \cap ColumnNames(src))
             \/ (c.columns # <<"*">> /\ HasDuplicates(c.columns))
             \/ (c.columns = <<"*">> /\ Len(src.columns) # Len(tbl.columns))
             \/ (c.conflict # <<>> /\ (~HasUniqueIndexOn(tbl, c.conflict) \/ c.set = <<>>
                                        \/ ~(Range(c.set) \subseteq ColumnNames(tbl))))
             \/ (c.guard # "" /\ c.guard \notin ColumnNames(tbl))
          THEN Raise(d)
          ELSE InsertOutcome(c, d, seqName,
                 InsertRows(c, tbl, SetToSeq(src.rows),
                            [ok |-> TRUE, rows |-> tbl.rows, last |-> last0]))

\* the backend executing one statement text (one cursor.execute call); a text
\* that holds several statements runs them in order
RECURSIVE Apply(_, _)
\* the rest of a text of several statements, after its first one gave r
ApplyRest(c, d, r) ==
  IF r.ok THEN Apply([kind |-> "statements", parts |-> Tail(c.parts)], r.db) ELSE Raise(d)

Apply(c, d) ==
  CASE c.kind = "drop_table" -> DoDropTable(c, d)
    [] c.kind = "create_table_like" -> DoCreateTableLike(c, d)
    [] c.kind = "drop_sequence" -> DoDropSequence(c, d)
    [] c.kind = "create_sequence" -> DoCreateSequence(c, d)
    [] c.kind = "set_default" -> DoSetDefault(c, d)
    [] c.kind = "add_constraint" -> DoAddConstraint(c, d)
    [] c.kind = "drop_constraint" -> DoDropConstraint(c, d)
    [] c.kind = "drop_index" -> DoDropIndex(c, d)
    [] c.kind = "rename_table" -> DoRenameTable(c, d)
    [] c.kind = "create_index" -> DoCreateIndex(c, d)
    [] c.kind = "rename_sequence" -> DoRenameSequence(c, d)
    [] c.kind = "insert" -> DoInsert(c, d)
    [] c.kind = "statements" ->
         IF c.parts = <<>> THEN Ok(d)
         ELSE ApplyRest(c, d, Apply(Head(c.parts), d))
    [] OTHER -> Raise(d)

(***************************************************************************)
(* Statement texts, as the hook and the operators build them.              *)
(***************************************************************************)
DropTable(n) == [kind |-> "drop_table", name |-> n]

CreateTableLike(n, l) == [kind |-> "create_table_like", name |-> n, like |-> l]

DropSequence(n) == [kind |-> "drop_sequence", name |-> n]

CreateSequence(n, seq) ==
  [kind |-> "create_sequence", name |-> n, seq |-> seq,
   options |-> <<"increment", "minvalue", "maxvalue", "last_value">>
               \o (IF seq.cycle # "" THEN <<"cycle">> ELSE <<>>)]

SetDefault(t, col, sq) == [kind |-> "set_default", table |-> t, column |-> col, sequence |-> sq]

AddConstraint(t, n, def, ifx) ==
  [kind |-> "add_constraint", table |-> t, name |-> n, definition |-> def, if_exists |-> ifx]

DropConstraint(t, n) == [kind |-> "drop_constraint", table |-> t, name |-> n]

DropIndex(n) == [kind |-> "drop_index", name |-> n]

RenameTable(n, to) == [kind |-> "rename_table", name |-> n, to |-> to]

CreateIndex(n, t, def) == [kind |-> "create_index", name |-> n, table |-> t, definition |-> def]

RenameSequence(n, to) == [kind |-> "rename_sequence", name |-> n, to |-> to]

Statements(parts) == [kind |-> "statements", parts |-> parts]

Insert(t, cols, from, conflict, set, guard) ==
  [kind |-> "insert", table |-> t, columns |-> cols, from |-> from,
   conflict |-> conflict, set |-> set, guard |-> guard]

TmpName(n) == "Tmp" \o n

SwapName(n) == "Swap" \o n

(***************************************************************************)
(* ExtendedPostgresHook._run_psql_commands_in_transaction                  *)
(*                                                                         *)
(* fault is the environment: the number of the statement at which the      *)
(* backend raises for a reason of its own (0: none, Len(commands)+1: the   *)
(* commit).  A statement also raises when Apply says so.  calls is what    *)
(* the connection saw, raised the exception that leaves the method.        *)
(***************************************************************************)
NoException == [type |-> "", stmt |-> 0]

BackendError(k) == [type |-> "Error", stmt |-> k]

RECURSIVE ExecuteLoop(_, _, _, _, _)
\* a loop that swallows a statement's exception and goes on to the next one
ExecuteNextSwallowing(commands, k, work, fault, seen, r) ==
  IF fault = k \/ ~r.ok
  THEN ExecuteLoop(commands, k + 1, work, fault, seen)
  ELSE ExecuteLoop(commands, k + 1, r.db, fault, seen)

\* cursor.execute(cmd) gave r: leave the loop on an exception, else go on
ExecuteNext(commands, k, work, fault, seen, r) ==
  IF fault = k \/ ~r.ok
  THEN [db |-> work, calls |-> seen, error |-> BackendError(k)]
  ELSE ExecuteLoop(commands, k + 1, r.db, fault, seen)

\* the for loop of the try block, from statement k on
ExecuteLoop(commands, k, work, fault, calls) ==
  IF k > Len(commands) THEN [db |-> work, calls |-> calls, error |-> NoException]
  ELSE ExecuteNext(commands, k, work, fault,
                   Append(calls, [op |-> "execute", stmt |-> k]),
                   Apply(commands[k], work))

\* a connection in autocommit mode: what ran before the failure stays
TransactionEndAutocommit(commands, d, fault, body) ==
  [db |-> body.db,
   calls |-> body.calls \o (IF body.error = NoException
                            THEN <<[op |-> "commit", stmt |-> 0]>>
                            ELSE <<[op |-> "rollback", stmt |-> 0]>>)
                       \o <<[op |-> "close", stmt |-> 0]>>,
   thrown |-> IF body.error = NoException /\ fault = Len(commands) + 1
              THEN BackendError(Len(commands) + 1) ELSE body.error,
   raised |-> IF body.error = NoException /\ fault = Len(commands) + 1
              THEN BackendError(Len(commands) + 1) ELSE body.error]

\* after the loop body: commit, or the except block, then the finally block
TransactionEnd(commands, d, fault, body) ==
  LET commitRaises == body.error = NoException /\ fault = Len(commands) + 1
      tried == IF body.error = NoException
               THEN Append(body.calls, [op |-> "commit", stmt |-> 0])
               ELSE body.calls
      error == IF commitRaises THEN BackendError(Len(commands) + 1) ELSE body.error
      handled == IF error = NoException THEN tried
                 ELSE Append(tried, [op |-> "rollback", stmt |-> 0])
      \* print(cmd) in the handler: cmd is unbound when the list was empty
      raised == IF error # NoException /\ commands = <<>>
                THEN [type |-> "UnboundLocalError", stmt |-> 0]
                ELSE error
  IN [db |-> IF error = NoException THEN body.db ELSE d,
      calls |-> Append(handled, [op |-> "close", stmt |-> 0]),
      thrown |-> error,
      raised |-> raised]

_run_psql_commands_in_transaction(commands, d, fault) ==
  TransactionEnd(commands, d, fault, ExecuteLoop(commands, 1, d, fault, <<>>))

(***************************************************************************)
(* ExtendedPostgresHook: introspection.                                    *)
(***************************************************************************)
Some(v) == [some |-> TRUE, v |-> v]

None == [some |-> FALSE, v |-> <<>>]

\* _get_table_columns: (column_name, data_type, column_default) of the table
_get_table_columns(table, d) ==
  IF table \in DOMAIN d.tables THEN d.tables[table].columns ELSE <<>>

\* _get_table_constraints: (conname, pg_get_constraintdef(oid), contype)
_get_table_constraints(table, d) ==
  IF table \notin DOMAIN d.tables THEN <<>>
  ELSE SetToSeq({<<con.conname, pg_get_constraintdef(con), con.contype>>
                 : con \in d.tables[table].constraints})

\* _get_table_indexes: (indexname, indexdef) from pg_indexes
_get_table_indexes(table, d) ==
  IF table \notin DOMAIN d.tables THEN <<>>
  ELSE SetToSeq({<<ix.indexname, pg_indexdef(ix, table)>> : ix \in d.tables[table].indexes})

\* the select list of the pg_sequences query, split at its commas
SequencePropertiesSelectList ==
  <<"sequencename", "increment_by", "min_value", "max_value", "last_value", "cycle", "">>

\* the backend parses a select list only when no item of it is empty
SelectListParses(items) == \A i \in 1..Len(items) : items[i] # ""

\* the test that makes a column a sequence column
IsSequenceColumn(column) ==
  /\ column.data_type \in {"integer", "smallint", "bigint"}
  /\ column.column_default # NoDefault
  /\ column.column_default.nextval # ""

\* _get_table_sequences, from column i on; n counts the catalog queries of
\* get_table_metadata issued so far
RECURSIVE _get_table_sequences(_, _, _, _, _, _, _)
_get_table_sequences(schema, columns_results, i, n, d, fault, acc) ==
  IF i > Len(columns_results) THEN [ok |-> TRUE, sequences |-> acc]
  ELSE LET column == columns_results[i]
           seq_name == column.column_default.nextval
       IN IF ~IsSequenceColumn(column)
          THEN _get_table_sequences(schema, columns_results, i + 1, n, d, fault, acc)
          ELSE IF fault = n + 1 \/ ~SelectListParses(SequencePropertiesSelectList)
                  \/ seq_name \notin DOMAIN d.sequences
          THEN [ok |-> FALSE, sequences |-> acc]
          ELSE LET p == d.sequences[seq_name]
               IN _get_table_sequences(schema, columns_results, i + 1, n + 1, d, fault,
                    Append(acc, [name |-> seq_name, column |-> column.column_name,
                                 increment |-> p.increment_by, minvalue |-> p.min_value,
                                 maxvalue |-> p.max_value, last |-> p.last_value,
                                 cycle |-> IF p.cycle THEN " cycle" ELSE ""]))

\* an introspection that records every index of the table
get_table_metadata_all_indexes(table, schema, include_autoincrement_keys, h, d, fault) ==
  IF fault \in 1..3 THEN [ok |-> FALSE, hook |-> h, columns_list |-> <<>>]
  ELSE LET columns_results == _get_table_columns(table, d)
           constraints_results == _get_table_constraints(table, d)
           indexes_results == _get_table_indexes(table, d)
           seqs == _get_table_sequences(schema, columns_results, 1, 3, d, fault, <<>>)
           constraints == [i \in 1..Len(constraints_results) |->
                             [name |-> constraints_results[i][1],
                              definition |-> constraints_results[i][2],
                              type |-> constraints_results[i][3]]]
           indexes == [i \in 1..Len(indexes_results) |->
                         [name |-> indexes_results[i][1], definition |-> indexes_results[i][2]]]
           seq_columns == {seqs.sequences[i].column : i \in 1..Len(seqs.sequences)}
           names == [i \in 1..Len(columns_results) |-> columns_results[i].column_name]
       IN IF ~seqs.ok
          THEN [ok |-> FALSE, hook |-> [h EXCEPT !.sequences = seqs.sequences],
                columns_list |-> <<>>]
          ELSE [ok |-> TRUE,
                hook |-> [h EXCEPT !.sequences = seqs.sequences,
                                   !.constraints = constraints,
                                   !.indexes = indexes],
                columns_list |-> IF include_autoincrement_keys THEN names
                                 ELSE SelectSeq(names, LAMBDA c : c \notin seq_columns)]

\* get_table_metadata: [ok, hook, columns_list]; fault numbers the catalog query
\* that raises (0: none)
get_table_metadata(table, schema, include_autoincrement_keys, h, d, fault) ==
  IF fault \in 1..3 THEN [ok |-> FALSE, hook |-> h, columns_list |-> <<>>]
  ELSE LET columns_results == _get_table_columns(table, d)
           constraints_results == _get_table_constraints(table, d)
           indexes_results == _get_table_indexes(table, d)
           seqs == _get_table_sequences(schema, columns_results, 1, 3, d, fault, <<>>)
           constraints_names == {constraints_results[i][1] : i \in 1..Len(constraints_results)}
           constraints == [i \in 1..Len(constraints_results) |->
                             [name |-> constraints_results[i][1],
                              definition |-> constraints_results[i][2],
                              type |-> constraints_results[i][3]]]
           kept == SelectSeq(indexes_results, LAMBDA ix : ix[1] \notin constraints_names)
           indexes == [i \in 1..Len(kept) |-> [name |-> kept[i][1], definition |-> kept[i][2]]]
           seq_columns == {seqs.sequences[i].column : i \in 1..Len(seqs.sequences)}
           names == [i \in 1..Len(columns_results) |-> columns_results[i].column_name]
       IN IF ~seqs.ok
          THEN [ok |-> FALSE, hook |-> [h EXCEPT !.sequences = seqs.sequences],
                columns_list |-> <<>>]
          ELSE [ok |-> TRUE,
                hook |-> [h EXCEPT !.sequences = seqs.sequences,
                                   !.constraints = constraints,
                                   !.indexes = indexes],
                columns_list |-> IF include_autoincrement_keys THEN names
                                 ELSE SelectSeq(names, LAMBDA c : c \notin seq_columns)]

(***************************************************************************)
(* ExtendedPostgresHook: shadow build, bulk load, promotion.               *)
(***************************************************************************)

\* a cleanup query that reads, and drops, the names bound to the live table
_generate_drop_table_attributes_commands_live(table, h, d, fault) ==
  LET cons == SetToSeq({con.conname : con \in d.tables[LiveTable].constraints})
      idxs == SetToSeq({ix.indexname : ix \in d.tables[LiveTable].indexes})
  IN [ok |-> fault = 0,
      hook |-> [h EXCEPT !.drop_constraint_commands =
                            [i \in 1..Len(cons) |-> DropConstraint(LiveTable, cons[i])],
                         !.drop_index_commands =
                            [i \in 1..Len(idxs) |-> DropIndex(idxs[i])]]]

\* _generate_drop_table_attributes_commands: two catalog queries on the names
\* bound to the table; fault numbers the query that raises (0: none)
_generate_drop_table_attributes_commands(table, h, d, fault) ==
  LET cons == IF table \in DOMAIN d.tables
              THEN SetToSeq({con.conname : con \in d.tables[table].constraints}) ELSE <<>>
      idxs == IF table \in DOMAIN d.tables
              THEN SetToSeq({ix.indexname : ix \in d.tables[table].indexes}) ELSE <<>>
      drop_constraint_commands == [i \in 1..Len(cons) |-> DropConstraint(table, cons[i])]
      drop_index_commands == [i \in 1..Len(idxs) |-> DropIndex(idxs[i])]
  IN CASE fault = 1 -> [ok |-> FALSE, hook |-> h]
       [] fault = 2 -> [ok |-> FALSE,
                        hook |-> [h EXCEPT !.drop_constraint_commands = drop_constraint_commands]]
       [] OTHER -> [ok |-> TRUE,
                    hook |-> [h EXCEPT !.drop_constraint_commands = drop_constraint_commands,
                                       !.drop_index_commands = drop_index_commands]]

\* a shadow build that does not drop what an earlier cycle left behind
create_tmp_table_commands_no_preclean(table, h) ==
  LET tmp_table == TmpName(table)
      fks == SelectSeq(h.constraints, LAMBDA con : con.type = "f")
  IN <<CreateTableLike(tmp_table, table)>>
     \o Flatten([i \in 1..Len(h.sequences) |->
           <<CreateSequence(TmpName(h.sequences[i].name), h.sequences[i]),
             SetDefault(tmp_table, h.sequences[i].column, TmpName(h.sequences[i].name))>>])
     \o [i \in 1..Len(fks) |->
           AddConstraint(tmp_table, TmpName(fks[i].name), fks[i].definition, FALSE)]

\* the statement batch create_tmp_table builds
create_tmp_table_commands(table, h) ==
  LET tmp_table == TmpName(table)
      swap_table == SwapName(table)
      fks == SelectSeq(h.constraints, LAMBDA con : con.type = "f")
  IN <<DropTable(tmp_table), DropTable(swap_table), CreateTableLike(tmp_table, table)>>
     \o Flatten([i \in 1..Len(h.sequences) |->
           <<DropSequence(TmpName(h.sequences[i].name)),
             CreateSequence(TmpName(h.sequences[i].name), h.sequences[i]),
             SetDefault(tmp_table, h.sequences[i].column, TmpName(h.sequences[i].name))>>])
     \o [i \in 1..Len(fks) |->
           AddConstraint(tmp_table, TmpName(fks[i].name), fks[i].definition, FALSE)]

\* create_tmp_table: [ok, db, hook, tx]; fault is the transaction's, fault2 the
\* cleanup-query helper's
create_tmp_table_end(h1, tx, fault2) ==
  LET gen == _generate_drop_table_attributes_commands(h1.tmp_table, h1, tx.db, fault2)
  IN IF tx.raised # NoException THEN [ok |-> FALSE, db |-> tx.db, hook |-> h1, tx |-> tx]
     ELSE [ok |-> gen.ok, db |-> tx.db, hook |-> gen.hook, tx |-> tx]

create_tmp_table(table, h, d, fault, fault2) ==
  create_tmp_table_end(
    [h EXCEPT !.tmp_table = TmpName(table), !.swap_table = SwapName(table)],
    _run_psql_commands_in_transaction(
      create_tmp_table_commands(table,
        [h EXCEPT !.tmp_table = TmpName(table), !.swap_table = SwapName(table)]), d, fault),
    fault2)

\* copy "table" (columns) from stdin with csv ... header null as '': the rows of
\* the file, fields in file order, into the named columns
CopyRows(tbl, columns_list, rows) ==
  {[id |-> IF "id" \in Range(columns_list) THEN r.id ELSE NULL,
    status |-> IF "status" \in Range(columns_list) THEN r.status ELSE NullText,
    updated_at |-> IF "updated_at" \in Range(columns_list) THEN r.updated_at ELSE NULL]
   : r \in rows}

\* write_to_db: [ok, db]; fault 1 is copy_expert raising, 2 the commit raising
write_to_db(rows, columns_list, table, d, fault) ==
  IF table \notin DOMAIN d.tables \/ columns_list = <<>>
     \/ ~(Range(columns_list) \subseteq ColumnNames(d.tables[table]))
  THEN Raise(d)
  ELSE LET tbl == d.tables[table]
           copied == CopyRows(tbl, columns_list, rows)
           loaded == tbl.rows \cup copied
       IN IF fault # 0
             \/ (HasPrimaryKey(tbl) /\ ~UniqueIds(loaded))
             \/ (HasPrimaryKey(tbl) /\ \E r \in loaded : r.id = NULL)
             \/ (HasPrimaryKey(tbl) /\ \E n \in copied : \E e \in tbl.rows : e.id = n.id)
          THEN Raise(d)
          ELSE Ok([d EXCEPT !.tables[table].rows = loaded])

\* a promotion that renames the tables and re-creates nothing on the new one
swap_db_tables_commands_bare(table, prep_commands, h) ==
  IF ~prep_commands.some
  THEN h.drop_constraint_commands
       \o h.drop_index_commands
       \o <<RenameTable(table, h.swap_table),
            RenameTable(h.tmp_table, table),
            DropTable(h.swap_table)>>
  ELSE prep_commands.v \o <<DropTable(h.tmp_table)>>

\* a promotion that drops the displaced table only after everything is re-created
swap_db_tables_commands_drop_last(table, prep_commands, h) ==
  IF ~prep_commands.some
  THEN h.drop_constraint_commands
       \o h.drop_index_commands
       \o [i \in 1..Len(h.sequences) |-> DropSequence(h.sequences[i].name)]
       \o <<RenameTable(table, h.swap_table),
            RenameTable(h.tmp_table, table)>>
       \o [i \in 1..Len(h.constraints) |->
             AddConstraint(table, h.constraints[i].name, h.constraints[i].definition, TRUE)]
       \o [i \in 1..Len(h.indexes) |->
             CreateIndex(h.indexes[i].name, table, h.indexes[i].definition)]
       \o [i \in 1..Len(h.sequences) |->
             Statements(<<RenameSequence(TmpName(h.sequences[i].name), h.sequences[i].name),
                          SetDefault(table, h.sequences[i].column, h.sequences[i].name)>>)]
       \o <<DropTable(h.swap_table)>>
  ELSE prep_commands.v
       \o <<DropTable(h.tmp_table)>>
       \o [i \in 1..Len(h.sequences) |-> DropSequence(TmpName(h.sequences[i].name))]

\* a promotion that swaps the tables whether a merge plan is given or not
swap_db_tables_commands_always_swap(table, prep_commands, h) ==
  (IF prep_commands.some THEN prep_commands.v ELSE <<>>)
    \o h.drop_constraint_commands
    \o h.drop_index_commands
    \o <<RenameTable(table, h.swap_table),
         RenameTable(h.tmp_table, table),
         DropTable(h.swap_table)>>
    \o [i \in 1..Len(h.constraints) |->
          AddConstraint(table, h.constraints[i].name, h.constraints[i].definition, TRUE)]

\* a promotion whose merge branch leaves the shadow table where it is
swap_db_tables_commands_keeping_shadow(table, prep_commands, h) ==
  IF ~prep_commands.some
  THEN h.drop_constraint_commands
       \o h.drop_index_commands
       \o [i \in 1..Len(h.sequences) |-> DropSequence(h.sequences[i].name)]
       \o <<RenameTable(table, h.swap_table),
            RenameTable(h.tmp_table, table),
            DropTable(h.swap_table)>>
       \o [i \in 1..Len(h.constraints) |->
             AddConstraint(table, h.constraints[i].name, h.constraints[i].definition, TRUE)]
       \o [i \in 1..Len(h.indexes) |->
             CreateIndex(h.indexes[i].name, table, h.indexes[i].definition)]
       \o [i \in 1..Len(h.sequences) |->
             Statements(<<RenameSequence(TmpName(h.sequences[i].name), h.sequences[i].name),
                          SetDefault(table, h.sequences[i].column, h.sequences[i].name)>>)]
  ELSE prep_commands.v

\* the statement batch swap_db_tables builds; prep_commands is None or Some(list)
swap_db_tables_commands(table, prep_commands, h) ==
  IF ~prep_commands.some
  THEN h.drop_constraint_commands
       \o h.drop_index_commands
       \o [i \in 1..Len(h.sequences) |-> DropSequence(h.sequences[i].name)]
       \o <<RenameTable(table, h.swap_table),
            RenameTable(h.tmp_table, table),
            DropTable(h.swap_table)>>
       \o [i \in 1..Len(h.constraints) |->
             AddConstraint(table, h.constraints[i].name, h.constraints[i].definition, TRUE)]
       \o [i \in 1..Len(h.indexes) |->
             CreateIndex(h.indexes[i].name, table, h.indexes[i].definition)]
       \o [i \in 1..Len(h.sequences) |->
             Statements(<<RenameSequence(TmpName(h.sequences[i].name), h.sequences[i].name),
                          SetDefault(table, h.sequences[i].column, h.sequences[i].name)>>)]
  ELSE prep_commands.v
       \o <<DropTable(h.tmp_table)>>
       \o [i \in 1..Len(h.sequences) |-> DropSequence(TmpName(h.sequences[i].name))]

\* swap_db_tables: the transaction's result and the batch it ran
swap_db_tables(table, prep_commands, h, d, fault) ==
  [tx |-> _run_psql_commands_in_transaction(
            swap_db_tables_commands(table, prep_commands, h), d, fault),
   commands |-> swap_db_tables_commands(table, prep_commands, h)]

(***************************************************************************)
(* S3BookmarkHook.  The store is the S3 object: [exists, text]; the text is  *)
(* the object's characters in order, where the value strftime('%Y-%m-%d     *)
(* %H:%M:%S') wrote is one item, kept as the whole seconds it spells, and   *)
(* each whitespace character is one item.  A bookmark value is              *)
(* [some, type, v]: None, a Python int, or a datetime of v ticks.           *)
(***************************************************************************)
NoBookmark == [some |-> FALSE, type |-> "", v |-> 0]

Space == -1

Newline == -2

Whitespace == {Space, Newline}

RECURSIVE lstrip(_)
lstrip(text) ==
  IF text # <<>> /\ Head(text) \in Whitespace THEN lstrip(Tail(text)) ELSE text

RECURSIVE rstrip(_)
rstrip(text) ==
  IF text # <<>> /\ text[Len(text)] \in Whitespace
  THEN rstrip(SubSeq(text, 1, Len(text) - 1))
  ELSE text

\* str.strip()
strip(text) == rstrip(lstrip(text))

\* a read that hands on the object's text as it is
_get_latest_bookmark_unstripped(store, incremental_key_type) ==
  IF store.exists
  THEN [ok |-> TRUE, key |-> [quoted |-> incremental_key_type = "timestamp", text |-> store.text]]
  ELSE CASE incremental_key_type = "int" -> [ok |-> TRUE, key |-> [quoted |-> FALSE, text |-> <<0>>]]
         [] incremental_key_type = "timestamp" ->
              [ok |-> TRUE, key |-> [quoted |-> TRUE, text |-> <<0>>]]
         [] OTHER -> [ok |-> FALSE, key |-> [quoted |-> FALSE, text |-> <<0>>]]

\* _get_latest_bookmark: the literal interpolated into the query; a quoted
\* literal is a timestamp of text seconds, an unquoted one the number text;
\* the text read is stripped of the whitespace around it
_get_latest_bookmark(store, incremental_key_type) ==
  IF store.exists
  THEN [ok |-> TRUE,
        key |-> [quoted |-> incremental_key_type = "timestamp", text |-> strip(store.text)]]
  ELSE CASE incremental_key_type = "int" -> [ok |-> TRUE, key |-> [quoted |-> FALSE, text |-> <<0>>]]
         [] incremental_key_type = "timestamp" ->
              [ok |-> TRUE, key |-> [quoted |-> TRUE, text |-> <<0>>]]
         [] OTHER -> [ok |-> FALSE, key |-> [quoted |-> FALSE, text |-> <<0>>]]

\* a save that writes the epoch when the bookmark is None
_save_next_bookmark_always(bookmark, store, fault) ==
  IF ~bookmark.some THEN [ok |-> TRUE, store |-> [exists |-> TRUE, text |-> <<0>>]]
  ELSE IF bookmark.type # "datetime" \/ fault THEN [ok |-> FALSE, store |-> store]
  ELSE [ok |-> TRUE, store |-> [exists |-> TRUE, text |-> <<bookmark.v \div TicksPerSecond>>]]

\* _save_next_bookmark: [ok, store]; fault is the S3 write raising
_save_next_bookmark(bookmark, store, fault) ==
  IF ~bookmark.some THEN [ok |-> TRUE, store |-> store]
  ELSE IF bookmark.type # "datetime" \/ fault THEN [ok |-> FALSE, store |-> store]
  ELSE [ok |-> TRUE, store |-> [exists |-> TRUE, text |-> <<bookmark.v \div TicksPerSecond>>]]

\* the public names the operators and the hook's tests call
get_latest_bookmark(store, incremental_key_type) ==
  _get_latest_bookmark(store, incremental_key_type)

save_next_bookmark(bookmark, store, fault) == _save_next_bookmark(bookmark, store, fault)

(***************************************************************************)
(* Snowflake side: a query is the list of lower bounds its nested           *)
(* "where <incremental_key> > <literal>" filters carry.                     *)
(***************************************************************************)
LiteralValue(key) == IF key.quoted THEN key.text[1] * TicksPerSecond ELSE key.text[1]

QueryResult(rows, incremental_key, snowflake_query) ==
  {r \in rows : \A i \in 1..Len(snowflake_query) :
                   r[incremental_key] > LiteralValue(snowflake_query[i])}

\* select max(incremental_key) as "bookmark" over the filtered query
BookmarkQueryResult(rows, incremental_key, incremental_key_type, snowflake_query) ==
  LET hit == QueryResult(rows, incremental_key, snowflake_query)
  IN IF hit = {} THEN NoBookmark
     ELSE [some |-> TRUE,
           type |-> IF incremental_key_type = "timestamp" THEN "datetime" ELSE "int",
           v |-> Max({r[incremental_key] : r \in hit})]

(***************************************************************************)
(* SnowflakeToPostgresMergeIncrementalOperator.execute, up to the call of   *)
(* super().execute: [ok, op, hook].                                         *)
(***************************************************************************)
merge_execute_plan_with(o, h, md) ==
  LET introspect == o.primary_key_columns.some /\ ~o.columns_to_update.some
      o1 == IF introspect /\ md.ok
            THEN [o EXCEPT !.columns_list = md.columns_list,
                           !.metadata_retrieved = TRUE,
                           !.columns_to_update =
                              Some(SelectSeq(md.columns_list,
                                     LAMBDA col : col \notin Range(o.primary_key_columns.v)))]
            ELSE o
      pk == o1.primary_key_columns
      ctu == o1.columns_to_update
      conflict == IF pk.some THEN pk.v ELSE <<>>
      set == IF pk.some THEN ctu.v ELSE <<>>
      guard == IF pk.some THEN o1.conditional_psql_timestamp_column ELSE ""
      tmp_table == TmpName(LiveTable)
      column_list == IF o1.include_autoincrement_keys THEN ctu.v ELSE ctu.v \o pk.v
  IN CASE introspect /\ ~md.ok -> [ok |-> FALSE, op |-> o, hook |-> md.hook]
       [] ~ctu.some ->
            [ok |-> TRUE, hook |-> IF introspect THEN md.hook ELSE h,
             op |-> [o1 EXCEPT !.insert_commands =
                       Some(<<Insert(LiveTable, <<"*">>, tmp_table, conflict, set, "")>>)]]
       \* list + None
       [] ~o1.include_autoincrement_keys /\ ~pk.some -> [ok |-> FALSE, op |-> o1, hook |-> h]
       [] OTHER ->
            [ok |-> TRUE, hook |-> IF introspect THEN md.hook ELSE h,
             op |-> [o1 EXCEPT !.insert_commands =
                       Some(<<Insert(LiveTable, column_list, tmp_table, conflict, set, guard)>>)]]

merge_execute_plan(o, h, d, fault) ==
  merge_execute_plan_with(o, h,
    get_table_metadata(LiveTable, Schema, o.include_autoincrement_keys, h, d, fault))

(***************************************************************************)
(* SnowflakeToDynamoOperator._insert / _update: the per-row retry loop.     *)
(* fails[i] is the environment: how many attempts on row i fail in a row.   *)
(***************************************************************************)
Tries == 3

RECURSIVE write_rows(_, _, _, _)
write_rows(rows, fails, i, items) ==
  IF i > Len(rows) THEN [ok |-> TRUE, items |-> items]
  ELSE IF fails[i] >= Tries THEN [ok |-> FALSE, items |-> items]
  ELSE write_rows(rows, fails, i + 1, {x \in items : x.id # rows[i].id} \cup {rows[i]})

(***************************************************************************)
(* The same loops attempt by attempt.  raises[i][a] is the environment:    *)
(* whether the a-th write attempt on row i raises.  st is [items, n,       *)
(* calls, raised]: the table, the rows counted, every attempt made, and    *)
(* the exception that leaves the method.                                   *)
(***************************************************************************)
NoWrites(items) == [items |-> items, n |-> 0, calls |-> <<>>, raised |-> NoException]

\* the put of one item: whatever item had the key is replaced
PutItem(items, row) == {x \in items : x.id # row.id} \cup {row}

RECURSIVE _insert_attempt_no_break(_, _, _, _, _)
\* a retry loop without the break: a saved row is saved again
_insert_attempt_no_break(row, i, attempt, raises, st) ==
  IF attempt >= Tries THEN [st EXCEPT !.n = @ + 1]
  ELSE LET ok == ~raises[i][attempt + 1]
           st1 == [st EXCEPT !.calls = Append(@, [row |-> i, attempt |-> attempt, ok |-> ok])]
       IN IF ok
          THEN _insert_attempt_no_break(row, i, attempt + 1, raises,
                                        [st1 EXCEPT !.items = PutItem(@, row)])
          ELSE IF attempt < Tries - 1
          THEN _insert_attempt_no_break(row, i, attempt + 1, raises, st1)
          ELSE [st1 EXCEPT !.raised = BackendError(Len(st1.calls))]

RECURSIVE _insert_attempt(_, _, _, _, _)
\* _insert, `for attempt in range(tries)`: try save, break; except: retry
\* while attempt < tries - 1, else raise; after the loop n += 1
_insert_attempt(row, i, attempt, raises, st) ==
  IF attempt >= Tries THEN [st EXCEPT !.n = @ + 1]
  ELSE LET ok == ~raises[i][attempt + 1]
           st1 == [st EXCEPT !.calls = Append(@, [row |-> i, attempt |-> attempt, ok |-> ok])]
       IN IF ok
          THEN [st1 EXCEPT !.items = PutItem(@, row), !.n = @ + 1]
          ELSE IF attempt < Tries - 1
          THEN _insert_attempt(row, i, attempt + 1, raises, st1)
          ELSE [st1 EXCEPT !.raised = BackendError(Len(st1.calls))]

RECURSIVE _insert(_, _, _, _)
\* _insert: the loop over the generator's rows
_insert(rows, raises, i, st) ==
  IF i > Len(rows) \/ st.raised # NoException THEN st
  ELSE _insert(rows, raises, i + 1, _insert_attempt(rows[i], i, 0, raises, st))

RECURSIVE _update_attempt(_, _, _, _, _)
\* _update, `for attempt in range(tries)`: try update; except: continue
\* while attempt < tries - 1, else raise; break; after the loop n += 1
_update_attempt(row, i, attempt, raises, st) ==
  IF attempt >= Tries THEN [st EXCEPT !.n = @ + 1]
  ELSE LET ok == ~raises[i][attempt + 1]
           st1 == [st EXCEPT !.calls = Append(@, [row |-> i, attempt |-> attempt, ok |-> ok])]
       IN IF ~ok
          THEN IF attempt < Tries - 1
               THEN _update_attempt(row, i, attempt + 1, raises, st1)
               ELSE [st1 EXCEPT !.raised = BackendError(Len(st1.calls))]
          ELSE [st1 EXCEPT !.items = PutItem(@, row), !.n = @ + 1]

RECURSIVE _update(_, _, _, _)
\* _update: the loop over the generator's rows
_update(rows, raises, i, st) ==
  IF i > Len(rows) \/ st.raised # NoException THEN st
  ELSE _update(rows, raises, i + 1, _update_attempt(rows[i], i, 0, raises, st))

(***************************************************************************)
(* State.                                                                  *)
(***************************************************************************)
VARIABLES
  db,             \* the committed catalog of the Postgres database
  hook,           \* fields of the ExtendedPostgresHook instance
  op,             \* fields of the operator instance
  pc,             \* where execute() stands; "idle" between calls
  file,           \* rows written to the temporary file by this run
  conn,           \* what the last transaction batch did to its connection
  result,         \* how the last execute() call ended
  runs,           \* execute() calls started
  snow,           \* rows the Snowflake query selects from
  bookmark,       \* the S3 bookmark object
  next_bookmark,  \* execute()'s local next_bookmark
  dynamo          \* items of the DynamoDB table

vars == <<db, hook, op, pc, file, conn, result, runs, snow, bookmark, next_bookmark, dynamo>>

(***************************************************************************)
(* Initial states: one operator instance, one live table.                  *)
(***************************************************************************)
LiveColumns(identity) ==
  <<[column_name |-> "id", data_type |-> "integer",
     column_default |-> IF identity THEN [nextval |-> IdSeqName] ELSE NoDefault],
    [column_name |-> "status", data_type |-> "text", column_default |-> NoDefault],
    [column_name |-> "updated_at", data_type |-> "timestamp without time zone",
     column_default |-> NoDefault]>>

ExistingRow == [id |-> 1, status |-> "old", updated_at |-> 1]

\* the live table: primary key, foreign key and check constraint; optionally a
\* plain index on status, optionally a sequence-backed id
LiveDb(plain_index, identity) ==
  [tables |-> [t \in {LiveTable} |->
      [columns |-> LiveColumns(identity),
       rows |-> {ExistingRow},
       constraints |-> {[conname |-> "orders_pkey", contype |-> "p", confrel |-> ""],
                        [conname |-> "orders_status_fkey", contype |-> "f",
                         confrel |-> "statuses"],
                        [conname |-> "orders_updated_at_check", contype |-> "c",
                         confrel |-> ""]},
       indexes |-> {[indexname |-> "orders_pkey", col |-> "id", unique |-> TRUE,
                     backs |-> "orders_pkey"]}
                   \cup (IF plain_index
                         THEN {[indexname |-> "orders_status_idx", col |-> "status",
                                unique |-> FALSE, backs |-> ""]}
                         ELSE {})]],
   sequences |-> IF identity
                 THEN [q \in {IdSeqName} |->
                         [increment_by |-> 1, min_value |-> 1, max_value |-> MaxId + 1,
                          last_value |-> 1, cycle |-> FALSE, owned_by |-> LiveTable]]
                 ELSE [q \in {} |-> 0]]

InitialDbs == {LiveDb(FALSE, FALSE), LiveDb(TRUE, FALSE), LiveDb(FALSE, TRUE), LiveDb(TRUE, TRUE)}

Operator(kind, pk, ctu, ts, inc, keytype) ==
  [kind |-> kind, primary_key_columns |-> pk, columns_to_update |-> ctu,
   conditional_psql_timestamp_column |-> ts, include_autoincrement_keys |-> inc,
   incremental_key_type |-> keytype,
   incremental_key |-> IF keytype = "timestamp" THEN "updated_at" ELSE "id",
   insert_commands |-> None, metadata_retrieved |-> FALSE, columns_list |-> <<>>,
   snowflake_query |-> <<>>]

PrimaryKeyChoices == {None, Some(<<"id">>)}

UpdateColumnChoices == {None, Some(<<"status">>), Some(<<"status", "updated_at">>)}

\* the operator instances of the model
BaseOperators == {Operator("base", None, None, "", inc, "") : inc \in BOOLEAN}

MergeOperators ==
  {Operator("merge", pk, ctu, ts, inc, "") :
     pk \in PrimaryKeyChoices, ctu \in UpdateColumnChoices,
     ts \in {"", "updated_at"}, inc \in BOOLEAN}

BookmarkOperators ==
  {Operator("bookmark", pk, None, "", FALSE, kt) :
     pk \in PrimaryKeyChoices, kt \in {"int", "timestamp"}}

DynamoBookmarkOperators ==
  {Operator("dynamo_bookmark", None, None, "", FALSE, kt) : kt \in {"int", "timestamp"}}

(***************************************************************************)
(* Construction.  A configuration is the keyword arguments of a constructor:*)
(* an argument is None when it was not passed.  Each __init__ gives         *)
(* [ok, op]: the instance, or ok = FALSE for the AirflowException.          *)
(***************************************************************************)
\* a string argument: not passed, or passed with value v
NotPassed == [some |-> FALSE, v |-> ""]

Passed(v) == [some |-> TRUE, v |-> v]

Given == Passed("given")

Rejected(cfg) == [ok |-> FALSE, op |-> cfg]

\* SnowflakeToPostgresOperator.__init__
SnowflakeToPostgresOperator_init(cfg) ==
  IF cfg.snowflake_query = NotPassed THEN Rejected(cfg)
  ELSE IF cfg.postgres_table = NotPassed THEN Rejected(cfg)
  ELSE [ok |-> TRUE, op |-> Operator("base", None, None, "", FALSE, "")]

\* SnowflakeToPostgresMergeIncrementalOperator.__init__
SnowflakeToPostgresMergeIncrementalOperator_init(cfg) ==
  IF ~SnowflakeToPostgresOperator_init(cfg).ok THEN Rejected(cfg)
  ELSE [ok |-> TRUE, op |-> Operator("merge", cfg.primary_key_columns, None, "", FALSE, "")]

\* a constructor that, like S3BookmarkHook's, only asks for a key type
SnowflakeToPostgresBookmarkOperator_init_any_type(cfg) ==
  IF ~SnowflakeToPostgresMergeIncrementalOperator_init(cfg).ok THEN Rejected(cfg)
  ELSE IF cfg.incremental_key_type = NotPassed THEN Rejected(cfg)
  ELSE IF cfg.incremental_key = NotPassed THEN Rejected(cfg)
  ELSE IF cfg.bookmark_s3_key = NotPassed THEN Rejected(cfg)
  ELSE [ok |-> TRUE,
        op |-> Operator("bookmark", cfg.primary_key_columns, None, "", FALSE,
                        cfg.incremental_key_type.v)]

\* SnowflakeToPostgresBookmarkOperator.__init__
SnowflakeToPostgresBookmarkOperator_init(cfg) ==
  IF ~SnowflakeToPostgresMergeIncrementalOperator_init(cfg).ok THEN Rejected(cfg)
  ELSE IF cfg.incremental_key_type \notin {Passed("int"), Passed("timestamp")} THEN Rejected(cfg)
  ELSE IF cfg.incremental_key = NotPassed THEN Rejected(cfg)
  ELSE IF cfg.bookmark_s3_key = NotPassed THEN Rejected(cfg)
  ELSE [ok |-> TRUE,
        op |-> Operator("bookmark", cfg.primary_key_columns, None, "", FALSE,
                        cfg.incremental_key_type.v)]

\* SnowflakeToDynamoOperator.__init__
SnowflakeToDynamoOperator_init(cfg) ==
  IF cfg.column_format \notin {Passed("camel"), Passed("lower"), NotPassed} THEN Rejected(cfg)
  ELSE IF cfg.snowflake_query = NotPassed THEN Rejected(cfg)
  ELSE IF cfg.dynamo_model = NotPassed THEN Rejected(cfg)
  ELSE [ok |-> TRUE, op |-> Operator("dynamo", None, None, "", FALSE, "")]

\* SnowflakeToDynamoBookmarkOperator.__init__
SnowflakeToDynamoBookmarkOperator_init(cfg) ==
  IF ~SnowflakeToDynamoOperator_init(cfg).ok THEN Rejected(cfg)
  ELSE IF cfg.incremental_key_type \notin {Passed("int"), Passed("timestamp")} THEN Rejected(cfg)
  ELSE IF cfg.incremental_key = NotPassed THEN Rejected(cfg)
  ELSE IF cfg.bookmark_s3_key = NotPassed THEN Rejected(cfg)
  ELSE [ok |-> TRUE,
        op |-> Operator("dynamo_bookmark", None, None, "", FALSE, cfg.incremental_key_type.v)]

\* S3BookmarkHook.__init__, with the arguments execute() passes it: ok or not
S3BookmarkHook_init(bookmark_s3_key, incremental_key_type) ==
  IF bookmark_s3_key = NotPassed THEN FALSE
  ELSE IF incremental_key_type = NotPassed THEN FALSE
  ELSE TRUE

\* the constructor of the configuration's class
Construct(cfg) ==
  CASE cfg.kind = "base" -> SnowflakeToPostgresOperator_init(cfg)
    [] cfg.kind = "merge" -> SnowflakeToPostgresMergeIncrementalOperator_init(cfg)
    [] cfg.kind = "bookmark" -> SnowflakeToPostgresBookmarkOperator_init(cfg)
    [] OTHER -> SnowflakeToDynamoBookmarkOperator_init(cfg)

KeyTypeArguments == {NotPassed, Passed("int"), Passed("timestamp"), Passed("float")}

\* the configurations of the model: per class, each required argument passed
\* or not, the key type one of four
PostgresConfigurations ==
  {[kind |-> k, snowflake_query |-> q, postgres_table |-> t, dynamo_model |-> NotPassed,
    column_format |-> Passed("camel"), primary_key_columns |-> None,
    incremental_key |-> NotPassed, incremental_key_type |-> NotPassed, bookmark_s3_key |-> NotPassed]
   : k \in {"base", "merge"}, q \in {NotPassed, Given}, t \in {NotPassed, Passed(LiveTable)}}

BookmarkConfigurations ==
  {[kind |-> "bookmark", snowflake_query |-> q, postgres_table |-> t, dynamo_model |-> NotPassed,
    column_format |-> Passed("camel"), primary_key_columns |-> pk,
    incremental_key |-> ik, incremental_key_type |-> kt, bookmark_s3_key |-> bk]
   : q \in {NotPassed, Given}, t \in {NotPassed, Passed(LiveTable)}, pk \in PrimaryKeyChoices,
     ik \in {NotPassed, Given}, kt \in KeyTypeArguments, bk \in {NotPassed, Given}}

DynamoBookmarkConfigurations ==
  {[kind |-> "dynamo_bookmark", snowflake_query |-> q, postgres_table |-> NotPassed,
    dynamo_model |-> m, column_format |-> cf, primary_key_columns |-> None,
    incremental_key |-> ik, incremental_key_type |-> kt, bookmark_s3_key |-> bk]
   : q \in {NotPassed, Given}, m \in {NotPassed, Given}, cf \in {Passed("camel"), Passed("upper")},
     ik \in {NotPassed, Given}, kt \in KeyTypeArguments, bk \in {NotPassed, Given}}

Configurations ==
  PostgresConfigurations \cup BookmarkConfigurations \cup DynamoBookmarkConfigurations

NoHook ==
  [constraints |-> <<>>, indexes |-> <<>>, sequences |-> <<>>,
   drop_constraint_commands |-> <<>>, drop_index_commands |-> <<>>,
   tmp_table |-> "", swap_table |-> ""]

NoTx == [commands |-> 0, calls |-> <<>>, thrown |-> NoException, raised |-> NoException]

TxLog(tx, commands) ==
  [commands |-> Len(commands), calls |-> tx.calls, thrown |-> tx.thrown, raised |-> tx.raised]

SourceRows == [id : Ids, status : {"new"}, updated_at : Stamps]

SourceSets == {S \in SUBSET SourceRows : UniqueIds(S)}

InitWith(operators) ==
  /\ op \in operators
  /\ db \in IF op.kind = "dynamo_bookmark" THEN {LiveDb(FALSE, FALSE)} ELSE InitialDbs
  /\ hook = NoHook
  /\ pc = "idle"
  /\ file = {}
  /\ conn = NoTx
  /\ result = [status |-> "none", at |-> ""]
  /\ runs = 0
  /\ snow = {}
  /\ bookmark = [exists |-> FALSE, text |-> <<>>]
  /\ next_bookmark = NoBookmark
  /\ dynamo = {}

Init == InitWith(BaseOperators \cup MergeOperators)

(***************************************************************************)
(* Steps of execute().  Every step that calls a collaborator takes the     *)
(* collaborator's failure from the environment (\E fault).                 *)
(***************************************************************************)
Raised(step) == pc' = "idle" /\ result' = [status |-> "raised", at |-> step]

Returned == pc' = "idle" /\ result' = [status |-> "returned", at |-> ""]

IsBookmarkKind == op.kind \in {"bookmark", "dynamo_bookmark"}

\* the scheduler calls execute() on the instance
Begin ==
  /\ pc = "idle"
  /\ runs < MaxRuns
  /\ runs' = runs + 1
  /\ snow' \in SourceSets
  /\ pc' = CASE IsBookmarkKind -> "read"
             [] op.kind = "merge" -> "plan"
             [] OTHER -> "extract"
  /\ result' = [status |-> "running", at |-> ""]
  /\ conn' = NoTx
  /\ file' = {}
  /\ next_bookmark' = NoBookmark
  /\ UNCHANGED <<db, hook, op, bookmark, dynamo>>

\* bookmark operators: read the bookmark and wrap the query in the filter
BookmarkRead ==
  /\ pc = "read"
  /\ \E fault \in BOOLEAN :
       \E r \in {get_latest_bookmark(bookmark, op.incremental_key_type)} :
          IF fault \/ ~r.ok
          THEN Raised("read") /\ UNCHANGED op
          ELSE /\ op' = [op EXCEPT !.snowflake_query = Append(@, r.key)]
               /\ pc' = "max"
               /\ UNCHANGED result
  /\ UNCHANGED <<db, hook, file, conn, runs, snow, bookmark, next_bookmark, dynamo>>

\* an execute() that saves the new bookmark as soon as the max() query gives it
BookmarkQuerySavingFirst ==
  /\ pc = "max"
  /\ \E fault \in BOOLEAN :
       IF fault
       THEN Raised("max") /\ UNCHANGED <<next_bookmark, bookmark>>
       ELSE \E b \in {BookmarkQueryResult(snow, op.incremental_key,
                         op.incremental_key_type, op.snowflake_query)} :
              /\ next_bookmark' = b
              /\ bookmark' = save_next_bookmark(b, bookmark, FALSE).store
              /\ pc' = IF op.kind = "bookmark" THEN "plan" ELSE "load"
              /\ UNCHANGED result
  /\ UNCHANGED <<db, hook, op, file, conn, runs, snow, dynamo>>

\* bookmark operators: run the max() query
BookmarkQuery ==
  /\ pc = "max"
  /\ \E fault \in BOOLEAN :
       IF fault
       THEN Raised("max") /\ UNCHANGED next_bookmark
       ELSE /\ next_bookmark' = BookmarkQueryResult(snow, op.incremental_key,
                                  op.incremental_key_type, op.snowflake_query)
            /\ pc' = IF op.kind = "bookmark" THEN "plan" ELSE "load"
            /\ UNCHANGED result
  /\ UNCHANGED <<db, hook, op, file, conn, runs, snow, bookmark, dynamo>>

\* merge operators: build the insert command
MergePlan ==
  /\ pc = "plan"
  /\ \E fault \in 0..4 :
       \E r \in {merge_execute_plan(op, hook, db, fault)} :
          /\ op' = r.op
          /\ hook' = r.hook
          /\ IF r.ok THEN pc' = "extract" /\ UNCHANGED result ELSE Raised("plan")
  /\ UNCHANGED <<db, file, conn, runs, snow, bookmark, next_bookmark, dynamo>>

\* an execute() without the early return: an empty result goes on to the build
ExtractContinuing ==
  /\ pc = "extract"
  /\ \E fault \in BOOLEAN :
       LET rows == QueryResult(snow, op.incremental_key, op.snowflake_query)
       IN CASE fault -> Raised("extract") /\ UNCHANGED file
            [] OTHER -> file' = rows /\ pc' = "metadata" /\ UNCHANGED result
  /\ UNCHANGED <<db, hook, op, conn, runs, snow, bookmark, next_bookmark, dynamo>>

\* save_snowflake_results_to_tmp_file, and the return on an empty result
Extract ==
  /\ pc = "extract"
  /\ \E fault \in BOOLEAN :
       LET rows == QueryResult(snow, op.incremental_key, op.snowflake_query)
       IN CASE fault -> Raised("extract") /\ UNCHANGED file
            [] rows = {} ->
                 /\ file' = rows
                 /\ IF op.kind = "bookmark" THEN pc' = "save" /\ UNCHANGED result
                    ELSE Returned
            [] OTHER -> file' = rows /\ pc' = "metadata" /\ UNCHANGED result
  /\ UNCHANGED <<db, hook, op, conn, runs, snow, bookmark, next_bookmark, dynamo>>

\* get_table_metadata, unless this instance has introspected before
Metadata ==
  /\ pc = "metadata"
  /\ IF op.metadata_retrieved
     THEN pc' = "create_tmp" /\ UNCHANGED <<op, hook, result>>
     ELSE \E fault \in 0..4 :
            \E md \in {get_table_metadata(LiveTable, Schema,
                         op.include_autoincrement_keys, hook, db, fault)} :
               /\ hook' = md.hook
               /\ IF md.ok
                  THEN /\ op' = [op EXCEPT !.columns_list = md.columns_list,
                                           !.metadata_retrieved = TRUE]
                       /\ pc' = "create_tmp"
                       /\ UNCHANGED result
                  ELSE Raised("metadata") /\ UNCHANGED op
  /\ UNCHANGED <<db, file, conn, runs, snow, bookmark, next_bookmark, dynamo>>

CreateTmp ==
  /\ pc = "create_tmp"
  /\ \E commands \in {create_tmp_table_commands(LiveTable, hook)} :
        \E fault \in 0..(Len(commands) + 1), fault2 \in 0..2 :
          \E r \in {create_tmp_table(LiveTable, hook, db, fault, fault2)} :
             /\ db' = r.db
             /\ hook' = r.hook
             /\ conn' = TxLog(r.tx, commands)
             /\ IF r.ok THEN pc' = "write" /\ UNCHANGED result ELSE Raised("create_tmp")
  /\ UNCHANGED <<op, file, runs, snow, bookmark, next_bookmark, dynamo>>

\* a bulk load whose exception is swallowed: the cycle goes on to the promotion
WriteToDbContinuing ==
  /\ pc = "write"
  /\ \E fault \in 0..2 :
       \E r \in {write_to_db(file, op.columns_list, TmpName(LiveTable), db, fault)} :
          /\ db' = r.db
          /\ pc' = "swap" /\ UNCHANGED result
  /\ UNCHANGED <<hook, op, file, conn, runs, snow, bookmark, next_bookmark, dynamo>>

WriteToDb ==
  /\ pc = "write"
  /\ \E fault \in 0..2 :
       \E r \in {write_to_db(file, op.columns_list, TmpName(LiveTable), db, fault)} :
          /\ db' = r.db
          /\ IF r.ok THEN pc' = "swap" /\ UNCHANGED result ELSE Raised("write")
  /\ UNCHANGED <<hook, op, file, conn, runs, snow, bookmark, next_bookmark, dynamo>>

SwapDbTables ==
  /\ pc = "swap"
  /\ \E commands \in {swap_db_tables_commands(LiveTable, op.insert_commands, hook)} :
        \E fault \in 0..(Len(commands) + 1) :
          \E r \in {swap_db_tables(LiveTable, op.insert_commands, hook, db, fault)} :
             /\ db' = r.tx.db
             /\ conn' = TxLog(r.tx, r.commands)
             \* the else branch appends to the list the operator holds
             /\ op' = IF op.insert_commands.some
                      THEN [op EXCEPT !.insert_commands = Some(r.commands)]
                      ELSE op
             /\ IF r.tx.raised # NoException THEN Raised("swap")
                ELSE IF op.kind = "bookmark" THEN pc' = "save" /\ UNCHANGED result
                ELSE Returned
  /\ UNCHANGED <<hook, file, runs, snow, bookmark, next_bookmark, dynamo>>

\* SnowflakeToDynamoOperator.execute: the generator's query, then the row loop
DynamoLoad ==
  /\ pc = "load"
  /\ \E rows \in {SetToSeq(QueryResult(snow, op.incremental_key, op.snowflake_query))} :
        \E fault \in BOOLEAN, fails \in [1..Len(rows) -> 0..Tries] :
          \E r \in {write_rows(rows, fails, 1, dynamo)} :
             IF fault
             THEN Raised("load") /\ UNCHANGED dynamo
             ELSE /\ dynamo' = r.items
                  /\ IF r.ok THEN pc' = "save" /\ UNCHANGED result ELSE Raised("load")
  /\ UNCHANGED <<db, hook, op, file, conn, runs, snow, bookmark, next_bookmark>>

\* an execute() that runs the max() query after the load, just before it saves
BookmarkSaveRequerying ==
  /\ pc = "save"
  /\ \E fault \in BOOLEAN :
       \E r \in {save_next_bookmark(
                   BookmarkQueryResult(snow, op.incremental_key, op.incremental_key_type,
                                       op.snowflake_query),
                   bookmark, fault)} :
          /\ bookmark' = r.store
          /\ IF r.ok THEN Returned ELSE Raised("save")
  /\ UNCHANGED <<db, hook, op, file, conn, runs, snow, next_bookmark, dynamo>>

\* bookmark operators: save_next_bookmark(next_bookmark), the last statement
BookmarkSave ==
  /\ pc = "save"
  /\ \E fault \in BOOLEAN :
       \E r \in {save_next_bookmark(next_bookmark, bookmark, fault)} :
          /\ bookmark' = r.store
          /\ IF r.ok THEN Returned ELSE Raised("save")
  /\ UNCHANGED <<db, hook, op, file, conn, runs, snow, next_bookmark, dynamo>>

\* execute() of SnowflakeToPostgresOperator and SnowflakeToPostgresMergeOperator
Next ==
  \/ Begin
  \/ MergePlan
  \/ Extract
  \/ Metadata
  \/ CreateTmp
  \/ WriteToDb
  \/ SwapDbTables

\* the load cycle of the base and merge operators
Spec == Init /\ [][Next]_vars

\* execute() of the two bookmark operators: the steps around the inherited load
BookmarkNext ==
  \/ Next
  \/ BookmarkRead
  \/ BookmarkQuery
  \/ DynamoLoad
  \/ BookmarkSave

InitBookmark == InitWith(BookmarkOperators \cup DynamoBookmarkOperators)

\* the bookmark operators
BookmarkSpec == InitBookmark /\ [][BookmarkNext]_vars

\* the source table grows while a run is in progress: some other writer
\* appends a row under a key that was not there
SourceAppend ==
  /\ pc # "idle"
  /\ \E r \in SourceRows \ snow :
        /\ UniqueIds(snow \cup {r})
        /\ snow' = snow \cup {r}
  /\ UNCHANGED <<db, hook, op, pc, file, conn, result, runs, bookmark, next_bookmark, dynamo>>

AppendNext ==
  \/ BookmarkNext
  \/ SourceAppend

\* the bookmark operators on a source that is written to during the runs
AppendSpec == InitBookmark /\ [][AppendNext]_vars

\* execute() is called on a source that keeps the rows it had
BeginOnKeptSource ==
  /\ pc = "idle"
  /\ runs < MaxRuns
  /\ runs' = runs + 1
  /\ pc' = CASE IsBookmarkKind -> "read"
             [] op.kind = "merge" -> "plan"
             [] OTHER -> "extract"
  /\ result' = [status |-> "running", at |-> ""]
  /\ conn' = NoTx
  /\ file' = {}
  /\ next_bookmark' = NoBookmark
  /\ UNCHANGED <<db, hook, op, snow, bookmark, dynamo>>

\* the source is only appended to, at any time, under an incremental key
\* greater than every key it holds
SourceGrow ==
  /\ \E r \in SourceRows \ snow :
        /\ UniqueIds(snow \cup {r})
        /\ \A x \in snow : r[op.incremental_key] > x[op.incremental_key]
        /\ snow' = snow \cup {r}
  /\ UNCHANGED <<db, hook, op, pc, file, conn, result, runs, bookmark, next_bookmark, dynamo>>

GrowNext ==
  \/ BeginOnKeptSource
  \/ BookmarkRead
  \/ BookmarkQuery
  \/ MergePlan
  \/ Extract
  \/ Metadata
  \/ CreateTmp
  \/ WriteToDb
  \/ SwapDbTables
  \/ DynamoLoad
  \/ BookmarkSave
  \/ SourceGrow

\* the bookmark operators on an append-only source
GrowSpec == InitBookmark /\ [][GrowNext]_vars

\* SnowflakeToDynamoOperator.execute with the writes seen attempt by attempt;
\* conn is what the DynamoDB connection saw
DynamoWrite ==
  /\ pc = "load"
  /\ \E rows \in {SetToSeq(QueryResult(snow, op.incremental_key, op.snowflake_query))} :
        \E fault \in BOOLEAN, update_existing \in BOOLEAN,
           raises \in [1..Len(rows) -> [1..Tries -> BOOLEAN]] :
          \E st \in {IF update_existing THEN _update(rows, raises, 1, NoWrites(dynamo))
                      ELSE _insert(rows, raises, 1, NoWrites(dynamo))} :
             IF fault
             THEN Raised("load") /\ UNCHANGED <<dynamo, conn>>
             ELSE /\ dynamo' = st.items
                  /\ conn' = [commands |-> st.n, calls |-> st.calls,
                              thrown |-> st.raised, raised |-> st.raised]
                  /\ IF st.raised = NoException THEN pc' = "save" /\ UNCHANGED result
                     ELSE Raised("load")
  /\ UNCHANGED <<db, hook, op, file, runs, snow, bookmark, next_bookmark>>

RetryNext ==
  \/ Begin
  \/ BookmarkRead
  \/ BookmarkQuery
  \/ DynamoWrite
  \/ BookmarkSave

InitRetry == InitWith(DynamoBookmarkOperators)

\* the DynamoDB bookmark operator, its writes attempt by attempt
RetrySpec == InitRetry /\ [][RetryNext]_vars

(***************************************************************************)
(* ExtendedSnowflakeHook.generate_rows_from_table and its two consumers:   *)
(* list(), which keeps what the generator yields, and                      *)
(* save_snowflake_results_to_tmp_file, which writes each row as it comes.  *)
(* A Python value is [kind, v]: None, an int (its digits), a list of ints, *)
(* or a str (its characters).  Objects live on a heap: hook.heap maps an   *)
(* object id to the dict it holds, and what the generator yields is the id.*)
(* In this specification snow is the query result in fetch order, conn the *)
(* cursor, file what the consumer holds.                                   *)
(***************************************************************************)
MaxFetched == 3

NoneValue == [kind |-> "None", v |-> <<>>]

IntValue(digit) == [kind |-> "int", v |-> <<digit>>]

ListValue(digits) == [kind |-> "list", v |-> digits]

StrValue(chars) == [kind |-> "str", v |-> chars]

\* cursor.description of the query: a scalar column and an array column
CursorColumns == <<"ID", "TAGS">>

\* the rows a query result is made of
ResultRows ==
  {<<IntValue(d), tags>> :
     d \in {"1", "2"}, tags \in {NoneValue, ListValue(<<>>), ListValue(<<"1", "2">>)}}

RECURSIVE ResultsUpTo(_)
ResultsUpTo(n) ==
  IF n = 0 THEN {<<>>}
  ELSE ResultsUpTo(n - 1)
         \cup {Append(q, r) : q \in {x \in ResultsUpTo(n - 1) : Len(x) = n - 1}, r \in ResultRows}

\* dict.fromkeys(column_names)
fromkeys(column_names) == [c \in Range(column_names) |-> NoneValue]

\* dict(zip(column_names, row))
zip(column_names, row) ==
  [c \in Range(column_names) |->
     row[CHOOSE i \in DOMAIN column_names : column_names[i] = c]]

\* cursor.fetchmany(chunk_size) at a cursor that has handed out position rows
fetchmany(rows, position, chunk_size) ==
  SubSeq(rows, position + 1,
         IF position + chunk_size < Len(rows) THEN position + chunk_size ELSE Len(rows))

RECURSIVE JoinItems(_)
\* the items of a list as str() spells them, separated by ", "
JoinItems(digits) ==
  IF digits = <<>> THEN <<>>
  ELSE IF Len(digits) = 1 THEN digits
  ELSE <<Head(digits), ",", " ">> \o JoinItems(Tail(digits))

\* str(value), character by character
str(value) ==
  CASE value.kind = "None" -> <<"N", "o", "n", "e">>
    [] value.kind = "list" -> <<"[">> \o JoinItems(value.v) \o <<"]">>
    [] OTHER -> value.v

\* '{' + str(value)[1:-1] + '}'
ArrayLiteral(value) ==
  StrValue(<<"{">> \o SubSeq(str(value), 2, Len(str(value)) - 1) \o <<"}">>)

\* the loop over row.items() for the postgres destination
EncodeArrayFields(row, array_fields) ==
  [c \in DOMAIN row |-> IF c \in array_fields THEN ArrayLiteral(row[c]) ELSE row[c]]

\* csv.DictWriter.writerow: None is written as the empty field, anything
\* else as its str()
writerow(row, fieldnames) ==
  [i \in DOMAIN fieldnames |->
     IF row[fieldnames[i]].kind = "None" THEN <<>> ELSE str(row[fieldnames[i]])]

NoFile == [header |-> <<>>, lines |-> <<>>]

\* cursor.execute(query); column_names; row_dict = dict.fromkeys(column_names)
GeneratorStart ==
  /\ pc = "execute"
  /\ hook' = [heap |-> [id \in {1} |-> fromkeys(CursorColumns)], row_dict |-> 1,
              column_names |-> CursorColumns]
  /\ conn' = [position |-> 0, fetches |-> 0, rows |-> <<>>, i |-> 0]
  /\ pc' = IF op.destination_type \in {"snowflake", "postgres"} \/ op.consumer = "list"
           THEN "fetch" ELSE "done"
  /\ result' = IF pc' = "done" THEN [status |-> "raised", at |-> "destination_type"]
               ELSE [status |-> "running", at |-> ""]
  /\ UNCHANGED <<db, op, file, runs, snow, bookmark, next_bookmark, dynamo>>

\* rows = cursor.fetchmany(chunk_size); if not rows: break
GeneratorFetch ==
  /\ pc = "fetch"
  /\ \E rows \in {fetchmany(snow, conn.position, op.chunk_size)} :
        /\ conn' = [position |-> conn.position + Len(rows), fetches |-> conn.fetches + 1,
                    rows |-> rows, i |-> 1]
        /\ IF rows = <<>>
           THEN /\ pc' = "done"
                \* list() is complete; save_... returns whether it wrote a row
                /\ result' = [status |-> "returned",
                              at |-> IF op.consumer = "save" /\ file.lines = <<>>
                                     THEN "False" ELSE "True"]
           ELSE pc' = "yield" /\ UNCHANGED result
  /\ UNCHANGED <<db, hook, op, file, runs, snow, bookmark, next_bookmark, dynamo>>

\* row_dict.update(zip(column_names, row)); yield row_dict, column_names
GeneratorYield(h, c) ==
  [h EXCEPT !.heap[h.row_dict] = zip(h.column_names, c.rows[c.i])]

\* where the generator resumes after the consumer has taken the row
GeneratorResume ==
  /\ conn' = [conn EXCEPT !.i = @ + 1]
  /\ pc' = IF conn.i < Len(conn.rows) THEN "yield" ELSE "fetch"

\* list(generate_rows_from_table(query)) takes the next item
Collect ==
  /\ pc = "yield"
  /\ op.consumer = "list"
  /\ hook' = GeneratorYield(hook, conn)
  /\ file' = Append(file, [row_dict |-> hook.row_dict, column_names |-> hook.column_names])
  /\ GeneratorResume
  /\ UNCHANGED <<db, op, result, runs, snow, bookmark, next_bookmark, dynamo>>

\* save_snowflake_results_to_tmp_file takes the next row: header before the
\* first row, array fields re-written in the row for postgres, writerow
SaveRow ==
  /\ pc = "yield"
  /\ op.consumer = "save"
  /\ \E h \in {GeneratorYield(hook, conn)} :
        \E row \in {IF op.destination_type = "postgres"
                     THEN EncodeArrayFields(h.heap[h.row_dict], op.array_fields)
                     ELSE h.heap[h.row_dict]} :
          /\ hook' = [h EXCEPT !.heap[h.row_dict] = row]
          /\ file' = [header |-> h.column_names,
                      lines |-> Append(file.lines, writerow(row, h.column_names))]
  /\ GeneratorResume
  /\ UNCHANGED <<db, op, result, runs, snow, bookmark, next_bookmark, dynamo>>

SnowflakeHookNext ==
  \/ GeneratorStart
  \/ GeneratorFetch
  \/ Collect
  \/ SaveRow

InitSnowflakeHook ==
  /\ op \in [consumer : {"list"}, chunk_size : 1..MaxFetched, array_fields : {{}},
              destination_type : {"snowflake"}]
          \cup [consumer : {"save"}, chunk_size : 1..MaxFetched,
                array_fields : {{}, {"TAGS"}},
                destination_type : {"snowflake", "postgres", "dynamo"}]
  /\ snow \in ResultsUpTo(MaxFetched)
  /\ pc = "execute"
  /\ file = IF op.consumer = "list" THEN <<>> ELSE NoFile
  /\ hook = [heap |-> <<>>, row_dict |-> 0, column_names |-> <<>>]
  /\ conn = [position |-> 0, fetches |-> 0, rows |-> <<>>, i |-> 0]
  /\ result = [status |-> "none", at |-> ""]
  /\ db = [tables |-> <<>>, sequences |-> <<>>]
  /\ runs = 0
  /\ bookmark = [exists |-> FALSE, text |-> <<>>]
  /\ next_bookmark = NoBookmark
  /\ dynamo = {}

\* the generator under list() and under save_snowflake_results_to_tmp_file
SnowflakeHookSpec == InitSnowflakeHook /\ [][SnowflakeHookNext]_vars

(***************************************************************************)
(* StitchMonitorSourceSensor.  In this specification op is the sensor      *)
(* instance, hook the StitchHook poke creates (start_time is poke's tic),  *)
(* snow what the Stitch API reports for the source (the completion time    *)
(* and exit status of its last extraction; -1: none yet), conn the clock,  *)
(* runs the pokes made and result what the last poke gave its caller.      *)
(* StitchHook._monitor_extraction is called, not defined, by the sources   *)
(* at hand; its outcomes are those its tests fix.                          *)
(***************************************************************************)
MaxClock == 4

\* the sensor's caller: poke is called until it returns a true value
SensorLoop ==
  /\ pc = "loop"
  /\ IF result.status = "returned" /\ result.value = "True"
     THEN pc' = "success" /\ UNCHANGED <<hook, runs, result>>
     ELSE /\ runs < MaxRuns
          /\ runs' = runs + 1
          \* poke: StitchHook(conn_id), tic = datetime.now(), _get_credentials()
          /\ hook' = [start_time |-> conn.now]
          /\ pc' = "monitor"
          /\ result' = [status |-> "running", at |-> ""]
  /\ UNCHANGED <<db, op, file, conn, snow, bookmark, next_bookmark, dynamo>>

\* poke inside _monitor_extraction: one look at the source's extractions;
\* when the monitoring returns, poke ends without a return statement
MonitorExtraction ==
  /\ pc = "monitor"
  /\ CASE ~snow.known -> Raised("monitor") /\ UNCHANGED conn
       [] snow.completion_time >= hook.start_time /\ snow.tap_exit_status # 0 ->
            Raised("monitor") /\ UNCHANGED conn
       [] snow.completion_time >= hook.start_time ->
            /\ pc' = "loop"
            /\ result' = [status |-> "returned", at |-> "", value |-> "None"]
            /\ UNCHANGED conn
       [] conn.now - hook.start_time >= op.timeout -> Raised("monitor") /\ UNCHANGED conn
       [] OTHER ->
            /\ conn.now + op.sleep_time <= MaxClock
            /\ conn' = [now |-> conn.now + op.sleep_time]
            /\ UNCHANGED <<pc, result>>
  /\ UNCHANGED <<db, hook, op, file, runs, snow, bookmark, next_bookmark, dynamo>>

\* Stitch finishes an extraction of the source, with exit status 0 or not
ExtractionCompletes ==
  /\ snow.known
  /\ snow.completion_time < conn.now
  /\ \E status \in {0, 1} :
        snow' = [snow EXCEPT !.completion_time = conn.now, !.tap_exit_status = status]
  /\ UNCHANGED <<db, hook, op, pc, file, conn, result, runs, bookmark, next_bookmark,
                 dynamo>>

\* time passes between two pokes
PokeInterval ==
  /\ pc = "loop"
  /\ conn.now < MaxClock
  /\ conn' = [now |-> conn.now + 1]
  /\ UNCHANGED <<db, hook, op, pc, file, result, runs, snow, bookmark, next_bookmark,
                 dynamo>>

SensorNext ==
  \/ SensorLoop
  \/ MonitorExtraction
  \/ ExtractionCompletes
  \/ PokeInterval

InitSensor ==
  /\ op \in [kind : {"sensor"}, sleep_time : {1, 2}, timeout : {1, 2}]
  /\ snow \in [known : BOOLEAN, completion_time : {-1}, tap_exit_status : {0, 1}]
  /\ conn = [now |-> 0]
  /\ hook = [start_time |-> 0]
  /\ pc = "loop"
  /\ result = [status |-> "none", at |-> ""]
  /\ runs = 0
  /\ file = {}
  /\ db = [tables |-> <<>>, sequences |-> <<>>]
  /\ bookmark = [exists |-> FALSE, text |-> <<>>]
  /\ next_bookmark = NoBookmark
  /\ dynamo = {}

\* the sensor poked by its caller while Stitch runs the extraction
SensorSpec == InitSensor /\ [][SensorNext]_vars

\* the DAG file is parsed: the constructor runs on the configuration; when it
\* raises there is no instance and nothing more happens
ConstructInstance ==
  /\ pc = "new"
  /\ \E r \in {Construct(op)} :
        IF r.ok THEN op' = r.op /\ pc' = "idle" /\ UNCHANGED result
        ELSE /\ pc' = "rejected"
             /\ result' = [status |-> "raised", at |-> "init"]
             /\ UNCHANGED op
  /\ UNCHANGED <<db, hook, file, conn, runs, snow, bookmark, next_bookmark, dynamo>>

ConfigNext ==
  \/ ConstructInstance
  \/ BookmarkNext

InitConfig ==
  /\ op \in Configurations
  /\ db \in IF op.kind = "dynamo_bookmark" THEN {LiveDb(FALSE, FALSE)} ELSE InitialDbs
  /\ hook = NoHook
  /\ pc = "new"
  /\ file = {}
  /\ conn = NoTx
  /\ result = [status |-> "none", at |-> ""]
  /\ runs = 0
  /\ snow = {}
  /\ bookmark = [exists |-> FALSE, text |-> <<>>]
  /\ next_bookmark = NoBookmark
  /\ dynamo = {}

\* construction from any configuration, then the runs of the instance
ConfigSpec == InitConfig /\ [][ConfigNext]_vars

(***************************************************************************)
(* S3BookmarkHook on its own: a hook instance and a bookmark object that is *)
(* absent or holds a value with whitespace around it, as a file saved by    *)
(* hand or with a final newline does.                                       *)
(***************************************************************************)
MaxPad == 2

Paddings == UNION {[1..n -> Whitespace] : n \in 0..MaxPad}

StoredTexts == {lead \o <<v>> \o trail : lead \in Paddings, v \in Stamps, trail \in Paddings}

\* hook.get_latest_bookmark()
HookRead ==
  /\ pc = "hook"
  /\ \E r \in {get_latest_bookmark(bookmark, op.incremental_key_type)} :
        /\ result' = [status |-> IF r.ok THEN "returned" ELSE "raised", at |-> "read",
                      key |-> r.key]
        /\ pc' = "hook_read"
  /\ UNCHANGED <<db, hook, op, file, conn, runs, snow, bookmark, next_bookmark, dynamo>>

\* hook.save_next_bookmark(bookmark)
HookSave ==
  /\ pc = "hook_read"
  /\ \E b \in {NoBookmark} \cup [some : {TRUE}, type : {"datetime", "int"}, v : Stamps],
        fault \in BOOLEAN :
        \E r \in {save_next_bookmark(b, bookmark, fault)} :
           /\ bookmark' = r.store
           /\ next_bookmark' = b
           /\ result' = [status |-> IF r.ok THEN "returned" ELSE "raised", at |-> "save",
                         key |-> result.key]
           /\ pc' = "hook_saved"
  /\ UNCHANGED <<db, hook, op, file, conn, runs, snow, dynamo>>

HookNext ==
  \/ HookRead
  \/ HookSave

InitHook ==
  /\ op \in {[kind |-> "s3_bookmark_hook", incremental_key_type |-> t] : t \in {"int", "timestamp"}}
  /\ bookmark \in {[exists |-> FALSE, text |-> <<>>]}
                    \cup {[exists |-> TRUE, text |-> t] : t \in StoredTexts}
  /\ db = LiveDb(FALSE, FALSE)
  /\ hook = NoHook
  /\ pc = "hook"
  /\ file = {}
  /\ conn = NoTx
  /\ result = [status |-> "none", at |-> ""]
  /\ runs = 0
  /\ snow = {}
  /\ next_bookmark = NoBookmark
  /\ dynamo = {}

\* the bookmark hook called directly
HookSpec == InitHook /\ [][HookNext]_vars

(***************************************************************************)
(* Two load cycles of the base operator, one per live table, against one    *)
(* database.  Each variable of a cycle holds one value per table; a cycle   *)
(* has extracted its rows and takes its hook calls one at a time, each call *)
(* one transaction; nothing fails in the environment.                       *)
(***************************************************************************)
\* a live table named t: primary key, foreign key and check constraint; the
\* foreign key of the second table references the first
TableNamed(t) ==
  [columns |-> LiveColumns(FALSE),
   rows |-> {ExistingRow},
   constraints |-> {[conname |-> t \o "_pkey", contype |-> "p", confrel |-> ""],
                    [conname |-> t \o "_status_fkey", contype |-> "f",
                     confrel |-> IF t = OtherTable THEN LiveTable ELSE "statuses"],
                    [conname |-> t \o "_updated_at_check", contype |-> "c", confrel |-> ""]},
   indexes |-> {[indexname |-> t \o "_pkey", col |-> "id", unique |-> TRUE,
                 backs |-> t \o "_pkey"]}]

TwoTableDb == [tables |-> [t \in LiveTables |-> TableNamed(t)], sequences |-> [q \in {} |-> 0]]

PairStep(t, to, ok) ==
  /\ pc' = [pc EXCEPT ![t] = IF ok THEN to ELSE "idle"]
  /\ result' = [result EXCEPT ![t] = IF ~ok THEN [status |-> "raised", at |-> pc[t]]
                                     ELSE IF to = "idle" THEN [status |-> "returned", at |-> ""]
                                     ELSE @]

PairMetadata(t) ==
  /\ pc[t] = "metadata"
  /\ \E md \in {get_table_metadata(t, Schema, op[t].include_autoincrement_keys, hook[t], db, 0)} :
        /\ hook' = [hook EXCEPT ![t] = md.hook]
        /\ op' = IF md.ok
                 THEN [op EXCEPT ![t].columns_list = md.columns_list,
                                 ![t].metadata_retrieved = TRUE]
                 ELSE op
        /\ PairStep(t, "create_tmp", md.ok)
  /\ UNCHANGED <<db, file, conn, runs, snow, bookmark, next_bookmark, dynamo>>

PairCreateTmp(t) ==
  /\ pc[t] = "create_tmp"
  /\ \E r \in {create_tmp_table(t, hook[t], db, 0, 0)} :
        /\ db' = r.db
        /\ hook' = [hook EXCEPT ![t] = r.hook]
        /\ PairStep(t, "write", r.ok)
  /\ UNCHANGED <<op, file, conn, runs, snow, bookmark, next_bookmark, dynamo>>

PairWriteToDb(t) ==
  /\ pc[t] = "write"
  /\ \E r \in {write_to_db(file[t], op[t].columns_list, TmpName(t), db, 0)} :
        /\ db' = r.db
        /\ PairStep(t, "swap", r.ok)
  /\ UNCHANGED <<hook, op, file, conn, runs, snow, bookmark, next_bookmark, dynamo>>

PairSwapDbTables(t) ==
  /\ pc[t] = "swap"
  /\ \E r \in {swap_db_tables(t, op[t].insert_commands, hook[t], db, 0)} :
        /\ db' = r.tx.db
        /\ PairStep(t, "idle", r.tx.raised = NoException)
  /\ UNCHANGED <<hook, op, file, conn, runs, snow, bookmark, next_bookmark, dynamo>>

PairNext ==
  \E t \in LiveTables :
     \/ PairMetadata(t)
     \/ PairCreateTmp(t)
     \/ PairWriteToDb(t)
     \/ PairSwapDbTables(t)

InitPair ==
  /\ db = TwoTableDb
  /\ op = [t \in LiveTables |-> Operator("base", None, None, "", FALSE, "")]
  /\ hook = [t \in LiveTables |-> NoHook]
  /\ snow \in [LiveTables -> SourceSets \ {{}}]
  /\ file = snow
  /\ pc = [t \in LiveTables |-> "metadata"]
  /\ result = [t \in LiveTables |-> [status |-> "running", at |-> ""]]
  /\ conn = NoTx
  /\ runs = 1
  /\ bookmark = [exists |-> FALSE, text |-> <<>>]
  /\ next_bookmark = NoBookmark
  /\ dynamo = {}

\* two cycles on two tables, interleaved call by call
PairSpec == InitPair /\ [][PairNext]_vars

(***************************************************************************)
(* Two load cycles of the base operator against the same live table, as two *)
(* task instances that nothing serializes start them.  Each task has its    *)
(* own operator and hook instance and its own extracted rows; the tasks     *)
(* take their hook calls one at a time, and nothing fails in the            *)
(* environment.                                                             *)
(***************************************************************************)
Tasks == {"first", "second"}

RaceMetadata(c) ==
  /\ pc[c] = "metadata"
  /\ \E md \in {get_table_metadata(LiveTable, Schema, op[c].include_autoincrement_keys,
                                    hook[c], db, 0)} :
        /\ hook' = [hook EXCEPT ![c] = md.hook]
        /\ op' = IF md.ok
                 THEN [op EXCEPT ![c].columns_list = md.columns_list,
                                 ![c].metadata_retrieved = TRUE]
                 ELSE op
        /\ PairStep(c, "create_tmp", md.ok)
  /\ UNCHANGED <<db, file, conn, runs, snow, bookmark, next_bookmark, dynamo>>

RaceCreateTmp(c) ==
  /\ pc[c] = "create_tmp"
  /\ \E r \in {create_tmp_table(LiveTable, hook[c], db, 0, 0)} :
        /\ db' = r.db
        /\ hook' = [hook EXCEPT ![c] = r.hook]
        /\ PairStep(c, "write", r.ok)
  /\ UNCHANGED <<op, file, conn, runs, snow, bookmark, next_bookmark, dynamo>>

RaceWriteToDb(c) ==
  /\ pc[c] = "write"
  /\ \E r \in {write_to_db(file[c], op[c].columns_list, TmpName(LiveTable), db, 0)} :
        /\ db' = r.db
        /\ PairStep(c, "swap", r.ok)
  /\ UNCHANGED <<hook, op, file, conn, runs, snow, bookmark, next_bookmark, dynamo>>

RaceSwapDbTables(c) ==
  /\ pc[c] = "swap"
  /\ \E r \in {swap_db_tables(LiveTable, op[c].insert_commands, hook[c], db, 0)} :
        /\ db' = r.tx.db
        /\ PairStep(c, "idle", r.tx.raised = NoException)
  /\ UNCHANGED <<hook, op, file, conn, runs, snow, bookmark, next_bookmark, dynamo>>

RaceNext ==
  \E c \in Tasks :
     \/ RaceMetadata(c)
     \/ RaceCreateTmp(c)
     \/ RaceWriteToDb(c)
     \/ RaceSwapDbTables(c)

InitRace ==
  /\ db = LiveDb(FALSE, FALSE)
  /\ op = [c \in Tasks |-> Operator("base", None, None, "", FALSE, "")]
  /\ hook = [c \in Tasks |-> NoHook]
  /\ snow \in [Tasks -> SourceSets \ {{}}]
  /\ file = snow
  /\ pc = [c \in Tasks |-> "metadata"]
  /\ result = [c \in Tasks |-> [status |-> "running", at |-> ""]]
  /\ conn = NoTx
  /\ runs = 1
  /\ bookmark = [exists |-> FALSE, text |-> <<>>]
  /\ next_bookmark = NoBookmark
  /\ dynamo = {}

\* two cycles on one table, interleaved call by call
RaceSpec == InitRace /\ [][RaceNext]_vars

(***************************************************************************)
(* execute() run from start to end with nothing failing in the environment: *)
(* [ok, db, hook, op].  rows is what the Snowflake query returns.           *)
(***************************************************************************)
Outcome(ok, d, h, o) == [ok |-> ok, db |-> d, hook |-> h, op |-> o]

ExecuteAfterSwap(o, h, r) ==
  Outcome(r.tx.raised = NoException, r.tx.db, h,
          IF o.insert_commands.some THEN [o EXCEPT !.insert_commands = Some(r.commands)] ELSE o)

ExecuteAfterWrite(table, o, h, w) ==
  IF ~w.ok THEN Outcome(FALSE, w.db, h, o)
  ELSE ExecuteAfterSwap(o, h, swap_db_tables(table, o.insert_commands, h, w.db, 0))

ExecuteAfterCreateTmp(table, o, rows, c) ==
  IF ~c.ok THEN Outcome(FALSE, c.db, c.hook, o)
  ELSE ExecuteAfterWrite(table, o, c.hook,
         write_to_db(rows, o.columns_list, TmpName(table), c.db, 0))

ExecuteAfterMetadata(table, o, d, rows, md) ==
  IF ~md.ok THEN Outcome(FALSE, d, md.hook, o)
  ELSE ExecuteAfterCreateTmp(table,
         [o EXCEPT !.columns_list = md.columns_list, !.metadata_retrieved = TRUE], rows,
         create_tmp_table(table, md.hook, d, 0, 0))

\* SnowflakeToPostgresOperator.execute with postgres_table = table
BaseExecute(table, o, h, d, rows) ==
  IF rows = {} THEN Outcome(TRUE, d, h, o)
  ELSE IF o.metadata_retrieved
  THEN ExecuteAfterCreateTmp(table, o, rows, create_tmp_table(table, h, d, 0, 0))
  ELSE ExecuteAfterMetadata(table, o, d, rows,
         get_table_metadata(table, Schema, o.include_autoincrement_keys, h, d, 0))

ExecuteAfterPlan(d, rows, p) ==
  IF ~p.ok THEN Outcome(FALSE, d, p.hook, p.op)
  ELSE BaseExecute(LiveTable, p.op, p.hook, d, rows)

\* execute() of the base operator and of the merge operator on the live table
Execute(o, h, d, rows) ==
  IF o.kind = "base" THEN BaseExecute(LiveTable, o, h, d, rows)
  ELSE ExecuteAfterPlan(d, rows, merge_execute_plan(o, h, d, 0))

(***************************************************************************)
(* Connections: how many of the connections a hook operation opened with    *)
(* get_conn() are still open when it returns or raises, given its outcome.  *)
(***************************************************************************)

\* _run_psql_commands_in_transaction: one get_conn; close in the finally block
TransactionOpen(tx) ==
  1 - Cardinality({i \in 1..Len(tx.calls) : tx.calls[i] = [op |-> "close", stmt |-> 0]})

\* get_table_metadata: one get_conn; close in the finally block on every path
MetadataOpen(md) == 1 - 1

\* _generate_drop_table_attributes_commands: one get_conn, no close on any path
DropAttributesOpen(gen) == 1 - 0

\* create_tmp_table: the transaction's connection, then the helper's, which is
\* called when the transaction did not raise
CreateTmpOpen(r) ==
  TransactionOpen(r.tx) + (IF r.tx.raised = NoException THEN DropAttributesOpen(r) ELSE 0)

\* write_to_db: one get_conn; close is its last statement, after the commit
WriteOpen(w) == IF w.ok THEN 1 - 1 ELSE 1

\* swap_db_tables: the transaction's connection
SwapOpen(r) == TransactionOpen(r.tx)

(***************************************************************************)
(* Properties.                                                             *)
(***************************************************************************)
Structure(tbl) ==
  [columns |-> tbl.columns, constraints |-> tbl.constraints, indexes |-> tbl.indexes]

Call(o) == [op |-> o, stmt |-> 0]

\* the first command of a batch, from k on, at which the backend raises
RECURSIVE FirstRaise(_, _, _, _)
FirstRaise(commands, k, work, fault) ==
  IF k > Len(commands) THEN [k |-> 0, db |-> work]
  ELSE IF fault = k \/ ~Apply(commands[k], work).ok THEN [k |-> k, db |-> work]
  ELSE FirstRaise(commands, k + 1, Apply(commands[k], work).db, fault)

\* what the connection must have seen, and what must be committed and raised,
\* when f tells the first command that raises
ControlFlow(commands, d, fault, tx, f) ==
  LET n == Len(commands)
      executes == [i \in 1..(IF f.k = 0 THEN n ELSE f.k) |-> [op |-> "execute", stmt |-> i]]
  IN IF f.k = 0
     THEN /\ tx.calls = executes \o <<Call("commit")>>
                          \o (IF fault = n + 1 THEN <<Call("rollback")>> ELSE <<>>)
                          \o <<Call("close")>>
          /\ tx.db = IF fault = n + 1 THEN d ELSE f.db
          /\ fault # n + 1 => tx.raised = NoException
     ELSE /\ tx.calls = executes \o <<Call("rollback"), Call("close")>>
          /\ tx.raised = BackendError(f.k)
          /\ tx.db = d

TransactionControlFlow(commands) ==
  \A fault \in 0..(Len(commands) + 1) :
     ControlFlow(commands, db, fault,
                 _run_psql_commands_in_transaction(commands, db, fault),
                 FirstRaise(commands, 1, db, fault))

\* C1: when the batch of swap_db_tables raises, at whichever command, the
\* committed catalog after the attempt is the one before it: the live table's
\* rows, columns, constraints and indexes are unchanged
C1_SwapAtomic ==
  [][(pc = "swap" /\ result'.status = "raised")
       => /\ db' = db
          /\ LiveTable \in DOMAIN db'.tables
          /\ db'.tables[LiveTable] = db.tables[LiveTable]]_vars

\* a full swap that raised after both renames had run
C1_Witness ==
  /\ result = [status |-> "raised", at |-> "swap"]
  /\ ~op.insert_commands.some
  /\ conn.thrown.stmt > 6
  /\ conn.thrown.stmt <= conn.commands

\* C2: every step of every load cycle, failing or not, leaves the live table's
\* name bound to a table with the column, constraint and index set it had
C2_LiveTableComplete ==
  [][/\ LiveTable \in DOMAIN db'.tables
     /\ Structure(db'.tables[LiveTable]) = Structure(db.tables[LiveTable])]_vars

\* a full swap has replaced the live table
C2_Witness ==
  /\ result.status = "returned"
  /\ ~op.insert_commands.some
  /\ conn.commands > 0
  /\ ExistingRow \notin db.tables[LiveTable].rows
  /\ Cardinality(db.tables[LiveTable].constraints) = 3

\* C3: the batch runs in list order on one connection; it is committed once,
\* after the last command; when command k raises nothing after k runs,
\* rollback is called, commit is not, and that exception leaves the method
C3_TransactionControlFlow ==
  /\ pc = "create_tmp" => TransactionControlFlow(create_tmp_table_commands(LiveTable, hook))
  /\ pc = "swap" =>
       TransactionControlFlow(swap_db_tables_commands(LiveTable, op.insert_commands, hook))

\* a batch that raised at a command in its middle
C3_Witness ==
  /\ result.status = "raised"
  /\ conn.thrown.stmt > 1
  /\ conn.thrown.stmt < conn.commands
  /\ conn.raised = conn.thrown
  /\ conn.calls[Len(conn.calls) - 1] = Call("rollback")

\* the inherited load of this run has returned
LoadReturned ==
  IF op.kind = "bookmark"
  THEN \/ file = {}
       \/ /\ conn.raised = NoException
          /\ conn.commands = Len(op.insert_commands.v)
          /\ TmpName(LiveTable) \notin DOMAIN db.tables
  ELSE QueryResult(snow, op.incremental_key, op.snowflake_query) \subseteq dynamo

\* C4: the bookmark store changes only in the last step of execute(), after
\* the load of the run has returned, and only when that step returns
C4_BookmarkAfterLoad ==
  [][bookmark' # bookmark
       => pc = "save" /\ LoadReturned /\ result'.status = "returned"]_vars

\* a run of the Postgres bookmark operator that loaded rows and saved
C4_Witness ==
  /\ op.kind = "bookmark"
  /\ result.status = "returned"
  /\ file # {}
  /\ bookmark.exists

\* C5: the stored bookmark never decreases, and a run whose filtered result
\* is empty leaves the store as it was
C5_BookmarkMonotone ==
  [][/\ bookmark.exists => bookmark'.exists /\ bookmark'.text[1] >= bookmark.text[1]
     /\ (pc = "save" /\ QueryResult(snow, op.incremental_key, op.snowflake_query) = {})
          => bookmark' = bookmark]_vars

\* a second run that found nothing beyond the bookmark the first one saved
C5_Witness ==
  /\ runs = 2
  /\ result.status = "returned"
  /\ bookmark.exists
  /\ snow # {}
  /\ QueryResult(snow, op.incremental_key, op.snowflake_query) = {}

\* the live table's sequence as _get_table_sequences would hand it on
LiveSequence ==
  [name |-> IdSeqName, column |-> "id",
   increment |-> db.sequences[IdSeqName].increment_by,
   minvalue |-> db.sequences[IdSeqName].min_value,
   maxvalue |-> db.sequences[IdSeqName].max_value,
   last |-> db.sequences[IdSeqName].last_value,
   cycle |-> IF db.sequences[IdSeqName].cycle THEN " cycle" ELSE ""]

\* C6: on a live table whose id column draws from a sequence, the cycle gets
\* through introspection when nothing in the environment fails, and the shadow
\* sequence is created holding the last value the live sequence had
C6_SequenceContinuity ==
  (pc = "metadata" /\ ~op.metadata_retrieved /\ IdSeqName \in DOMAIN db.sequences)
    => /\ get_table_metadata(LiveTable, Schema, op.include_autoincrement_keys,
                             hook, db, 0).ok
       /\ \E r \in {Apply(CreateSequence(TmpName(IdSeqName), LiveSequence), db)} :
             /\ r.ok
             /\ r.db.sequences[TmpName(IdSeqName)].last_value
                  = db.sequences[IdSeqName].last_value

\* C7: a full swap that nothing in the environment disturbs goes through, and
\* the live table then carries the introspected constraints and indexes under
\* their original names and nothing under a shadow name
C7_ReattachedUnderOriginalNames ==
  (pc = "swap" /\ ~op.insert_commands.some)
    => \E tx \in {swap_db_tables(LiveTable, op.insert_commands, hook, db, 0).tx} :
          /\ tx.raised = NoException
          /\ {c.conname : c \in tx.db.tables[LiveTable].constraints}
               = {hook.constraints[i].name : i \in 1..Len(hook.constraints)}
          /\ {ix.indexname : ix \in tx.db.tables[LiveTable].indexes}
               = {hook.constraints[i].name :
                    i \in {j \in 1..Len(hook.constraints) : hook.constraints[j].type = "p"}}
                 \cup {hook.indexes[i].name : i \in 1..Len(hook.indexes)}

\* C8: when no primary-key columns are supplied, a cycle that succeeds leaves
\* in the live table exactly the rows it loaded into the shadow table, and its
\* promotion batch holds no insert
C8_FullReplaceWithoutPrimaryKey ==
  [][(pc = "swap" /\ result'.status = "returned" /\ ~op.primary_key_columns.some)
       => /\ db'.tables[LiveTable].rows = db.tables[TmpName(LiveTable)].rows
          /\ \A c \in Range(swap_db_tables_commands(LiveTable, op.insert_commands, hook)) :
                c.kind # "insert"]_vars

\* C9: with a guard column designated, a cycle that succeeds leaves an existing
\* row as it was when the incoming row of the same key is older, and gives it
\* the incoming row's update columns when the incoming row is as new or newer
C9_UpsertGuard ==
  [][(pc = "swap" /\ result'.status = "returned" /\ op.primary_key_columns.some
        /\ op.conditional_psql_timestamp_column = "updated_at")
       => \A e \in db.tables[LiveTable].rows : \A p \in file :
             (p.id = e.id /\ e.updated_at # NULL)
               => IF p.updated_at < e.updated_at
                  THEN e \in db'.tables[LiveTable].rows
                  ELSE \E x \in db'.tables[LiveTable].rows :
                          /\ x.id = e.id
                          /\ \A c \in Range(op.columns_to_update.v) : x[c] = p[c]]_vars

\* C10: a plan built from primary-key columns and an explicit columns_to_update
\* names every primary-key column in the insert's column list
C10_InsertListHasPrimaryKey ==
  (/\ op.kind = "merge"
   /\ pc = "extract"
   /\ ~op.metadata_retrieved
   /\ op.primary_key_columns.some
   /\ op.insert_commands.some)
    => Range(op.primary_key_columns.v) \subseteq Range(op.insert_commands.v[1].columns)

\* C11: on a live table whose primary key draws from a sequence, a load with
\* that key, explicit update columns and a guard, of a row that has an existing
\* key and a newer guard value, updates the existing row in place, keeps every
\* index under its name and leaves the sequence beyond every key
C11_UpsertOntoIdentityKey ==
  (/\ pc = "plan"
   /\ IdSeqName \in DOMAIN db.sequences
   /\ op.primary_key_columns = Some(<<"id">>)
   /\ op.columns_to_update = Some(<<"status", "updated_at">>)
   /\ op.conditional_psql_timestamp_column = "updated_at"
   /\ snow = {[id |-> 1, status |-> "new", updated_at |-> 2]}
   /\ db.tables[LiveTable].rows = {ExistingRow})
    => \E out \in {Execute(op, hook, db, snow)} :
          /\ out.ok
          /\ out.db.tables[LiveTable].rows = {[id |-> 1, status |-> "new", updated_at |-> 2]}
          /\ out.db.tables[LiveTable].indexes = db.tables[LiveTable].indexes
          /\ \A r \in out.db.tables[LiveTable].rows :
                out.db.sequences[IdSeqName].last_value >= r.id

\* the relations of a catalog, one entry per table, index and sequence
Relations(d) ==
  {<<"table", t>> : t \in DOMAIN d.tables}
    \cup UNION {{<<"index", t, ix>> : ix \in d.tables[t].indexes} : t \in DOMAIN d.tables}
    \cup {<<"sequence", q>> : q \in DOMAIN d.sequences}

\* no relation name and no constraint name of a table is in use twice
NamesUnique(d) ==
  /\ Cardinality(Relations(d)) = Cardinality(RelationNames(d))
  /\ \A t \in DOMAIN d.tables :
        \A c1, c2 \in d.tables[t].constraints : c1.conname = c2.conname => c1 = c2

FullSwapReturned ==
  /\ pc = "idle" /\ result.status = "returned"
  /\ file # {} /\ conn.commands > 0
  /\ ~op.insert_commands.some

\* C12: after a full-swap cycle has returned, the same cycle run again on the
\* same source rows returns and leaves the catalog, rows and structure, as the
\* first run left it; after either run no constraint, index or sequence name is
\* in use twice
C12_IdempotentRerun ==
  FullSwapReturned =>
    /\ NamesUnique(db)
    /\ \E again \in {Execute(op, hook, db, file)} :
          /\ again.ok
          /\ again.db = db
          /\ NamesUnique(again.db)

C12_Witness ==
  /\ FullSwapReturned
  /\ file = {[id |-> 2, status |-> "new", updated_at |-> 2]}
  /\ db.tables[LiveTable].rows = file
  /\ runs = 1

\* the rows the run's filtered query returns
Filtered == QueryResult(snow, op.incremental_key, op.snowflake_query)

\* C13: for either key type, when the filtered result is not empty and the load
\* has returned, the save of the bookmark returns and leaves in the store the
\* greatest incremental key of the filtered result, as the number for an int
\* key and as the text of its whole seconds for a timestamp key
C13_BookmarkIsMaximum ==
  (pc = "save" /\ Filtered # {}) =>
     \E r \in {save_next_bookmark(next_bookmark, bookmark, FALSE)} :
        /\ r.ok
        /\ r.store.exists
        /\ r.store.text = IF op.incremental_key_type = "timestamp"
                          THEN <<Max({x[op.incremental_key] : x \in Filtered}) \div TicksPerSecond>>
                          ELSE <<Max({x[op.incremental_key] : x \in Filtered})>>

\* the rows the next run extracts when it finds the source as this run left it
FilteredNext ==
  QueryResult(snow, op.incremental_key,
              Append(op.snowflake_query,
                     get_latest_bookmark(bookmark, op.incremental_key_type).key))

\* C14: when a run of a bookmark operator has returned, no row it extracted and
\* loaded is extracted again by the next run from the unchanged source, rows
\* whose timestamp key has a part of a second included
C14_NoRowExtractedTwice ==
  (pc = "idle" /\ result.status = "returned") => Filtered \cap FilteredNext = {}

\* C15: whichever hook operation the cycle is about to call, and whatever
\* fails in it, the operation leaves none of the connections it opened open
C15_ConnectionsClosed ==
  /\ (pc = "metadata" /\ ~op.metadata_retrieved) =>
        \A fault \in 0..4 :
           MetadataOpen(get_table_metadata(LiveTable, Schema,
                          op.include_autoincrement_keys, hook, db, fault)) = 0
  /\ pc = "create_tmp" =>
        \A fault \in 0..(Len(create_tmp_table_commands(LiveTable, hook)) + 1), fault2 \in 0..2 :
           CreateTmpOpen(create_tmp_table(LiveTable, hook, db, fault, fault2)) = 0
  /\ pc = "write" =>
        \A fault \in 0..2 :
           WriteOpen(write_to_db(file, op.columns_list, TmpName(LiveTable), db, fault)) = 0
  /\ pc = "swap" =>
        \A fault \in 0..(Len(swap_db_tables_commands(LiveTable, op.insert_commands, hook)) + 1) :
           SwapOpen(swap_db_tables(LiveTable, op.insert_commands, hook, db, fault)) = 0

\* C16: a step that calls get_table_metadata or write_to_db goes on to the next
\* step only when the call returned; when it raised, execute() ends raising at
\* that step, and the live table, rows and structure, and the stored bookmark
\* are as they were before the step
C16_FailureBeforePromotion ==
  [][/\ (pc \in {"plan", "metadata", "write"} /\ pc' = "idle")
          => /\ result' = [status |-> "raised", at |-> pc]
             /\ LiveTable \in DOMAIN db'.tables
             /\ db'.tables[LiveTable] = db.tables[LiveTable]
             /\ bookmark' = bookmark
             /\ next_bookmark' = next_bookmark
     /\ (pc = "metadata" /\ ~op.metadata_retrieved /\ pc' # "idle")
          => \E fault \in 0..4 :
                \E md \in {get_table_metadata(LiveTable, Schema,
                             op.include_autoincrement_keys, hook, db, fault)} :
                   md.ok /\ hook' = md.hook /\ op'.columns_list = md.columns_list
     /\ (pc = "write" /\ pc' # "idle")
          => \E fault \in 0..2 :
                \E w \in {write_to_db(file, op.columns_list, TmpName(LiveTable), db, fault)} :
                   w.ok /\ db' = w.db /\ pc' = "swap"]_vars

\* a second run that raised in write_to_db after the first run saved a bookmark
C16_Witness ==
  /\ result = [status |-> "raised", at |-> "write"]
  /\ pc = "idle"
  /\ runs = 2
  /\ bookmark.exists
  /\ TmpName(LiveTable) \in DOMAIN db.tables

\* a run that raised in get_table_metadata
C16_WitnessMetadata ==
  /\ result = [status |-> "raised", at |-> "metadata"]
  /\ pc = "idle"

\* what the claim calls an invalid configuration of a class
MissingRequired(cfg) ==
  \/ cfg.snowflake_query = NotPassed
  \/ cfg.kind \in {"base", "merge", "bookmark"} /\ cfg.postgres_table = NotPassed
  \/ cfg.kind = "dynamo_bookmark" /\ cfg.dynamo_model = NotPassed
  \/ cfg.kind \in {"bookmark", "dynamo_bookmark"}
       /\ (\/ cfg.incremental_key = NotPassed
           \/ cfg.bookmark_s3_key = NotPassed
           \/ cfg.incremental_key_type = NotPassed)

UnsupportedKeyType(cfg) ==
  /\ cfg.kind \in {"bookmark", "dynamo_bookmark"}
  /\ cfg.incremental_key_type \notin {Passed("int"), Passed("timestamp")}

C18_BookmarkRead ==
  [][pc = "hook" =>
       /\ bookmark' = bookmark
       /\ result'.status = "returned"
       /\ result'.key.quoted = (op.incremental_key_type = "timestamp")
       /\ ~bookmark.exists => result'.key.text = <<0>>
       /\ bookmark.exists =>
            \E lead, trail \in Paddings :
               /\ bookmark.text = lead \o result'.key.text \o trail
               /\ Head(result'.key.text) \notin Whitespace
               /\ result'.key.text[Len(result'.key.text)] \notin Whitespace]_vars

\* a stored value with whitespace on both sides has been read
C18_Witness ==
  /\ pc = "hook_read"
  /\ op.incremental_key_type = "timestamp"
  /\ bookmark = [exists |-> TRUE, text |-> <<Newline, 2, Space, Newline>>]
  /\ result.key = [quoted |-> TRUE, text |-> <<2>>]

\* the cycle on table t run on its own from the initial catalog
Alone(t) == BaseExecute(t, Operator("base", None, None, "", FALSE, ""), NoHook, TwoTableDb, file[t])

\* C19: however the hook calls of two cycles on two live tables interleave, a
\* cycle that has ended returned or raised as it does when run alone, and left
\* its live table, rows and structure, as the run alone leaves it; when both
\* have ended the catalog holds the two live tables and nothing else
C19_InterleavedCycles ==
  /\ \A t \in LiveTables :
        pc[t] = "idle" =>
          \E alone \in {Alone(t)} :
             /\ (result[t].status = "returned") = alone.ok
             /\ t \in DOMAIN db.tables
             /\ db.tables[t] = alone.db.tables[t]
  /\ (\A t \in LiveTables : pc[t] = "idle") =>
        /\ DOMAIN db.tables = LiveTables
        /\ NamesUnique(db)

\* the catalog without what an aborted cycle on the live table left behind
Clean(d) ==
  [tables |-> [t \in DOMAIN d.tables \ {TmpName(LiveTable), SwapName(LiveTable)} |-> d.tables[t]],
   sequences |-> [q \in {x \in DOMAIN d.sequences : d.sequences[x].owned_by = LiveTable}
                    |-> d.sequences[q]]]

\* C20: a shadow build that returns leaves an empty shadow table and no swap
\* table, whatever an aborted cycle left behind; the cycle then ends as a cycle
\* started from the catalog without those leftovers ends, with the same live
\* table; and the catalog never holds more than one shadow table for the live
\* table
C20_RecoveryByPreClean ==
  [][/\ (pc = "create_tmp" /\ pc' = "write")
          => /\ TmpName(LiveTable) \in DOMAIN db'.tables
             /\ db'.tables[TmpName(LiveTable)].rows = {}
             /\ SwapName(LiveTable) \notin DOMAIN db'.tables
     /\ pc = "create_tmp"
          => \E here \in {ExecuteAfterCreateTmp(LiveTable, op, file,
                            create_tmp_table(LiveTable, hook, db, 0, 0))},
                clean \in {ExecuteAfterCreateTmp(LiveTable, op, file,
                            create_tmp_table(LiveTable, hook, Clean(db), 0, 0))} :
                /\ here.ok = clean.ok
                /\ here.db.tables[LiveTable] = clean.db.tables[LiveTable]
                /\ here.ok => here.db = clean.db
     /\ DOMAIN db'.tables \subseteq {LiveTable, TmpName(LiveTable)}]_vars

\* a second run stands before its shadow build on a catalog where the first
\* run, aborted after its bulk load, has left a loaded shadow table
C20_Witness ==
  /\ runs = 2
  /\ pc = "create_tmp"
  /\ op.kind = "base"
  /\ TmpName(LiveTable) \in DOMAIN db.tables
  /\ db.tables[TmpName(LiveTable)].rows = {[id |-> 1, status |-> "new", updated_at |-> 1]}
  /\ file = {[id |-> 2, status |-> "new", updated_at |-> 2]}
  /\ db.tables[LiveTable].rows = {ExistingRow}

\* a sequence of the live table as introspection hands it on
IntrospectedSequence ==
  [name |-> IdSeqName, column |-> "id", increment |-> 1, minvalue |-> 1,
   maxvalue |-> MaxId + 1, last |-> 1, cycle |-> ""]

\* the hook as it stands, and as it would stand with one sequence introspected
HooksAtSwap == {hook, [hook EXCEPT !.sequences = <<IntrospectedSequence>>]}

\* the step of the promotion a statement belongs to, 0 for none
SwapPhase(c, table) ==
  CASE c.kind \in {"drop_constraint", "drop_index", "drop_sequence"} -> 1
    [] c.kind = "rename_table" /\ c.name = table /\ c.to = SwapName(table) -> 2
    [] c.kind = "rename_table" /\ c.name = TmpName(table) /\ c.to = table -> 3
    [] c.kind = "drop_table" /\ c.name = SwapName(table) -> 4
    [] c.kind = "add_constraint" /\ c.table = table -> 5
    [] c.kind = "create_index" /\ c.table = table -> 6
    [] c.kind = "statements" /\ Len(c.parts) = 2
         /\ c.parts[1].kind = "rename_sequence" /\ c.parts[2].kind = "set_default" -> 7
    [] OTHER -> 0

\* how many statements of a batch belong to step n
InPhase(batch, table, n) ==
  Cardinality({i \in 1..Len(batch) : SwapPhase(batch[i], table) = n})

LinearOrder(batch, table, h) ==
  /\ \A i \in 1..Len(batch) : SwapPhase(batch[i], table) # 0
  /\ \A i, j \in 1..Len(batch) :
        i < j => SwapPhase(batch[i], table) <= SwapPhase(batch[j], table)
  /\ InPhase(batch, table, 1)
       = Len(h.drop_constraint_commands) + Len(h.drop_index_commands) + Len(h.sequences)
  /\ InPhase(batch, table, 2) = 1
  /\ InPhase(batch, table, 3) = 1
  /\ InPhase(batch, table, 4) = 1
  /\ InPhase(batch, table, 5) = Len(h.constraints)
  /\ InPhase(batch, table, 6) = Len(h.indexes)
  /\ InPhase(batch, table, 7) = Len(h.sequences)

\* C21: the batch swap_db_tables builds without a merge plan is, in this order,
\* the pre-clean drops, the rename of the live table to the swap name, the
\* rename of the shadow table to the live name, the drop of the swap name, one
\* add per introspected constraint, one create per introspected index, one
\* rename-and-rebind per introspected sequence; a promotion that returned
\* executed the batch in that order on one connection and committed after its
\* last statement
C21_SwapBatchOrder ==
  /\ (pc = "swap" /\ ~op.insert_commands.some) =>
        \A h \in HooksAtSwap :
           LinearOrder(swap_db_tables_commands(LiveTable, op.insert_commands, h), LiveTable, h)
  /\ (pc = "idle" /\ result.status = "returned" /\ conn.commands > 0
        /\ ~op.insert_commands.some) =>
        conn.calls = [i \in 1..conn.commands |-> [op |-> "execute", stmt |-> i]]
                       \o <<Call("commit"), Call("close")>>

\* a full swap of ten statements has returned
C21_Witness ==
  /\ pc = "idle"
  /\ result.status = "returned"
  /\ ~op.insert_commands.some
  /\ conn.commands = 10
  /\ Len(hook.constraints) = 3
  /\ Len(hook.drop_constraint_commands) = 3

\* C22: while the bulk load stands to run, the shadow table carries no index
C22_ShadowHasNoIndexAtLoad ==
  pc = "write" =>
    /\ TmpName(LiveTable) \in DOMAIN db.tables
    /\ db.tables[TmpName(LiveTable)].indexes = {}

\* the foreign keys of the live table under their shadow names
ShadowForeignKeys ==
  {[c EXCEPT !.conname = TmpName(c.conname)]
     : c \in {x \in db.tables[LiveTable].constraints : x.contype = "f"}}

\* C23: from the shadow build to the swap, the constraints on the shadow table
\* are the live table's foreign keys under shadow names, and nothing else
C23_OnlyForeignKeysOnShadow ==
  pc \in {"write", "swap"} =>
    /\ TmpName(LiveTable) \in DOMAIN db.tables
    /\ db.tables[TmpName(LiveTable)].constraints = ShadowForeignKeys

\* the columns of a table that draw their default from a sequence
SequenceBindings(tbl) ==
  {<<tbl.columns[i].column_name, tbl.columns[i].column_default.nextval>>
     : i \in {j \in 1..Len(tbl.columns) : tbl.columns[j].column_default.nextval # ""}}

\* C24: with a merge plan, the promotion batch is the plan's insert, then the
\* drop of the shadow table, then one drop per shadow sequence; it runs as one
\* transaction, committed after its last statement or not at all; no step of
\* the cycle renames or drops the live table, and the live table keeps its
\* columns, constraints, indexes and sequence bindings
C24_MergeBranch ==
  [][op.kind = "merge" =>
       /\ (pc = "swap") =>
            /\ op.insert_commands.some
            /\ \A h \in HooksAtSwap :
                  swap_db_tables_commands(LiveTable, op.insert_commands, h)
                    = op.insert_commands.v
                        \o <<DropTable(TmpName(LiveTable))>>
                        \o [i \in 1..Len(h.sequences) |->
                              DropSequence(TmpName(h.sequences[i].name))]
            /\ Len(op.insert_commands.v) = 1
            /\ op.insert_commands.v[1].kind = "insert"
            /\ op.insert_commands.v[1].table = LiveTable
            /\ op.insert_commands.v[1].from = TmpName(LiveTable)
            /\ IF result'.status = "returned"
               THEN /\ conn'.calls = <<[op |-> "execute", stmt |-> 1],
                                       [op |-> "execute", stmt |-> 2],
                                       Call("commit"), Call("close")>>
                    /\ TmpName(LiveTable) \notin DOMAIN db'.tables
               ELSE db' = db
       /\ LiveTable \in DOMAIN db'.tables
       /\ SwapName(LiveTable) \notin DOMAIN db'.tables
       /\ Structure(db'.tables[LiveTable]) = Structure(db.tables[LiveTable])
       /\ SequenceBindings(db'.tables[LiveTable]) = SequenceBindings(db.tables[LiveTable])
       /\ DOMAIN db'.sequences = DOMAIN db.sequences]_vars

\* a merge cycle has returned after its upsert changed the existing row
C24_Witness ==
  /\ op.kind = "merge"
  /\ pc = "idle"
  /\ result.status = "returned"
  /\ op.primary_key_columns.some
  /\ conn.commands = 2
  /\ file = {[id |-> 1, status |-> "new", updated_at |-> 2]}
  /\ db.tables[LiveTable].rows = {[id |-> 1, status |-> "new", updated_at |-> 2]}

\* the pre-clean of a promotion batch: its statements before the first rename
PreClean(batch) ==
  SubSeq(batch, 1,
         (CHOOSE k \in 1..Len(batch) :
            /\ batch[k].kind = "rename_table"
            /\ \A j \in 1..(k - 1) : batch[j].kind # "rename_table") - 1)

\* the names the live table's constraints, indexes and sequence go by
OriginalNames ==
  {c.conname : c \in db.tables[LiveTable].constraints}
    \cup {ix.indexname : ix \in db.tables[LiveTable].indexes}
    \cup {IdSeqName}

HasShadowPrefix(name) == \E n \in OriginalNames : name = TmpName(n)

FullSwapStands == pc = "swap" /\ ~op.insert_commands.some

PreCleanDropsShadowAttributes(h, pre, after) ==
  /\ \A i \in 1..Len(pre) :
        CASE pre[i].kind = "drop_constraint" ->
               /\ pre[i].table = TmpName(LiveTable)
               /\ \E c \in db.tables[TmpName(LiveTable)].constraints : c.conname = pre[i].name
          [] pre[i].kind = "drop_index" ->
               \E ix \in db.tables[TmpName(LiveTable)].indexes : ix.indexname = pre[i].name
          [] pre[i].kind = "drop_sequence" ->
               \E k \in 1..Len(h.sequences) : h.sequences[k].name = pre[i].name
          [] OTHER -> FALSE
  /\ after.error = NoException
  /\ after.db.tables[LiveTable] = db.tables[LiveTable]
  /\ after.db.tables[TmpName(LiveTable)].constraints = {}
  /\ after.db.tables[TmpName(LiveTable)].indexes = {}
  /\ after.db.tables[TmpName(LiveTable)].rows = db.tables[TmpName(LiveTable)].rows

AfterRenameToSwap(batch) ==
  ExecuteLoop(SubSeq(batch, 1, Len(PreClean(batch)) + 1), 1, db, 0, <<>>).db

\* C26: no committed catalog holds a table under the swap name; a full swap
\* creates that table inside its transaction, and the transaction, committed
\* or rolled back at whichever statement, leaves none behind
C26_SwapNameNeverCommitted ==
  /\ SwapName(LiveTable) \notin DOMAIN db.tables
  /\ FullSwapStands =>
        \E batch \in {swap_db_tables_commands(LiveTable, op.insert_commands, hook)} :
           /\ SwapName(LiveTable) \in DOMAIN AfterRenameToSwap(batch).tables
           /\ \A fault \in 0..(Len(batch) + 1) :
                 SwapName(LiveTable) \notin
                   DOMAIN _run_psql_commands_in_transaction(batch, db, fault).db.tables

\* the commit of a full swap raised, after every statement of the batch ran
C26_Witness ==
  /\ result = [status |-> "raised", at |-> "swap"]
  /\ ~op.insert_commands.some
  /\ conn.thrown.stmt = conn.commands + 1
  /\ conn.commands = 10

\* C27: nothing keeps two cycles on the same live table apart.  A shadow build
\* always goes through and leaves an empty shadow table, whichever task built
\* or loaded the one that was there; a bulk load goes into whatever table
\* stands under the shadow name and raises when there is none; a swap promotes
\* whatever table stands under the shadow name, with the rows it holds, and
\* raises, leaving the catalog as it was, when there is none
C27_NoMutualExclusion ==
  [][\A c \in Tasks :
       /\ pc[c] = "create_tmp" /\ pc'[c] # "create_tmp" =>
            /\ pc'[c] = "write"
            /\ db'.tables[TmpName(LiveTable)].rows = {}
            /\ db'.tables[LiveTable] = db.tables[LiveTable]
       /\ pc[c] = "write" /\ pc'[c] # "write" =>
            IF TmpName(LiveTable) \in DOMAIN db.tables
               /\ \A n \in file[c] : \A e \in db.tables[TmpName(LiveTable)].rows : e.id # n.id
            THEN /\ pc'[c] = "swap"
                 /\ db'.tables[TmpName(LiveTable)].rows
                      = db.tables[TmpName(LiveTable)].rows \cup file[c]
            ELSE result'[c] = [status |-> "raised", at |-> "write"] /\ db' = db
       /\ pc[c] = "swap" /\ pc'[c] # "swap" =>
            IF TmpName(LiveTable) \in DOMAIN db.tables
            THEN /\ result'[c].status = "returned"
                 /\ db'.tables[LiveTable].rows = db.tables[TmpName(LiveTable)].rows
                 /\ TmpName(LiveTable) \notin DOMAIN db'.tables
            ELSE result'[c] = [status |-> "raised", at |-> "swap"] /\ db' = db]_vars

\* both cycles have ended: the first returned, the second raised, and the live
\* table holds no row at all, neither task's data
C27_Witness ==
  /\ \A c \in Tasks : pc[c] = "idle"
  /\ result["first"].status = "returned"
  /\ result["second"].status = "raised"
  /\ db.tables[LiveTable].rows = {}
  /\ file["first"] = {[id |-> 1, status |-> "new", updated_at |-> 1]}
  /\ file["second"] = {[id |-> 2, status |-> "new", updated_at |-> 2]}

\* the greatest incremental key of the rows this run extracted, as the max()
\* query would give it
MaxOfExtracted ==
  IF file = {} THEN NoBookmark
  ELSE [some |-> TRUE,
        type |-> IF op.incremental_key_type = "timestamp" THEN "datetime" ELSE "int",
        v |-> Max({r[op.incremental_key] : r \in file})]

\* C28: when the load of a run has returned, the new high-water mark the run
\* holds is the greatest incremental key of the rows the run extracted and
\* loaded, also when rows were appended to the source during the run
C28_BookmarkOverLoadedRows ==
  (op.kind = "bookmark" /\ pc = "save") => next_bookmark = MaxOfExtracted

\* the foreign keys other tables declare on table t in catalog d
ReferencesTo(t, d) ==
  UNION {{<<o, c>> : c \in {x \in d.tables[o].constraints : x.confrel = t}}
         : o \in DOMAIN d.tables \ {t, TmpName(t)}}

\* C29: when the full swap of a live table returns, every foreign key that
\* another table declared on the live table before the swap is still there
\* and references the live table
C29_ReferencingKeysKept ==
  [][\A t \in LiveTables :
       (pc[t] = "swap" /\ result'[t].status = "returned") =>
          \A ref \in ReferencesTo(t, db) :
             /\ ref[1] \in DOMAIN db'.tables
             /\ ref[2] \in db'.tables[ref[1]].constraints]_vars

C31_EmptySourceReturns ==
  [][(/\ pc = "extract"
      /\ QueryResult(snow, op.incremental_key, op.snowflake_query) = {}
      /\ result'.status # "raised")
     => (/\ pc' = "idle"
         /\ result'.status = "returned"
         /\ db' = db
         /\ hook' = hook
         /\ conn' = NoTx)]_vars

\* a full-replace execute on an empty source has returned and the live row is there
C31_Witness ==
  /\ pc = "idle"
  /\ result.status = "returned"
  /\ op.kind = "base"
  /\ snow = {}
  /\ file = {}
  /\ conn = NoTx
  /\ db.tables[LiveTable].rows = {ExistingRow}

(***************************************************************************)
(* One operator instance executed twice while another session alters the   *)
(* live table between the two cycles.                                      *)
(***************************************************************************)

\* between two execute() calls another session drops the table's check constraint
AlterLiveTable ==
  /\ pc = "idle"
  /\ runs \in 1..(MaxRuns - 1)
  /\ LiveTable \in DOMAIN db.tables
  /\ \E c \in {con \in db.tables[LiveTable].constraints : con.contype = "c"} :
        db' = [db EXCEPT !.tables[LiveTable].constraints = @ \ {c}]
  /\ UNCHANGED <<hook, op, pc, file, conn, result, runs, snow, bookmark, next_bookmark,
                 dynamo>>

DriftNext ==
  \/ Begin
  \/ MergePlan
  \/ Extract
  \/ Metadata
  \/ CreateTmp
  \/ WriteToDb
  \/ SwapDbTables
  \/ AlterLiveTable

InitDrift ==
  /\ InitWith(BaseOperators \cup MergeOperators)
  /\ db = LiveDb(FALSE, FALSE)

DriftSpec == InitDrift /\ [][DriftNext]_vars

(***************************************************************************)
(* C32: every load cycle works from metadata introspected in that same     *)
(* cycle: when the cycle goes on from the metadata step to the shadow      *)
(* build, the constraint, index and sequence lists of the hook and the     *)
(* column list of the operator are what get_table_metadata returns on the  *)
(* database as it is then, on a second execute of the instance as well.    *)
(***************************************************************************)
C32_MetadataOfThisCycle ==
  [][(pc = "metadata" /\ pc' = "create_tmp")
     => \E md \in {get_table_metadata(LiveTable, Schema,
                      op.include_autoincrement_keys, hook, db, 0)} :
          /\ md.ok
          /\ hook'.constraints = md.hook.constraints
          /\ hook'.indexes = md.hook.indexes
          /\ hook'.sequences = md.hook.sequences
          /\ op'.columns_list = md.columns_list]_vars

\* where the rows of a bookmark operator are loaded to
Target == IF op.kind = "bookmark" THEN db.tables[LiveTable].rows ELSE dynamo

\* the persisted bookmark as the next run's filter reads it
PersistedBookmark == LiteralValue(get_latest_bookmark(bookmark, op.incremental_key_type).key)

C34_PlanNeverRaises ==
  [][(/\ pc = "plan"
      /\ ~(op.primary_key_columns.some /\ ~op.columns_to_update.some))
     => (/\ pc' = "extract"
         /\ op'.insert_commands.some)]_vars

\* every table, sequence, constraint and index name of catalog d
CatalogNames(d) ==
  RelationNames(d)
    \cup UNION {{c.conname : c \in d.tables[t].constraints} : t \in DOMAIN d.tables}

\* the names of the live table and its objects, under the shadow prefix
ShadowPrefixedNames == {TmpName(n) : n \in CatalogNames(LiveDb(TRUE, TRUE))}

\* C35: when a cycle completes, in the full-swap branch or in the merge
\* branch, the catalog holds no table under the shadow name and no
\* shadow-prefixed sequence, constraint or index name
C35_NoShadowObjectLeft ==
  [][(pc = "swap" /\ result'.status = "returned")
     => /\ TmpName(LiveTable) \notin DOMAIN db'.tables
        /\ CatalogNames(db') \cap ShadowPrefixedNames = {}]_vars

\* the shadow build has left shadow-prefixed constraint and index names with
\* the loaded shadow table, and the merge cycle stands before its last batch
C35_WitnessMerge ==
  /\ pc = "swap"
  /\ op.insert_commands.some
  /\ TmpName("orders_pkey") \in CatalogNames(db)
  /\ TmpName("orders_status_fkey") \in CatalogNames(db)
  /\ db.tables[TmpName(LiveTable)].rows # {}

\* a full-swap cycle has returned after a build that left such names
C35_Witness ==
  /\ pc = "idle"
  /\ result.status = "returned"
  /\ ~op.insert_commands.some
  /\ file # {}
  /\ conn.commands > 0
  /\ db.tables[LiveTable].rows = file
  /\ hook.drop_constraint_commands # <<>>

\* the attempts of a write loop on nrows rows, as the connection saw them,
\* follow the retry rule; n is the loop's count and raised what left it
RetryRule(calls, nrows, n, raised) ==
  /\ \A i \in 1..nrows : Cardinality({k \in DOMAIN calls : calls[k].row = i}) <= Tries
  /\ \A k \in DOMAIN calls :
        /\ calls[k].attempt < Tries
        /\ calls[k].ok =>
              /\ \A j \in DOMAIN calls : j > k => calls[j].row > calls[k].row
              /\ k < Len(calls) =>
                    calls[k + 1].row = calls[k].row + 1 /\ calls[k + 1].attempt = 0
              /\ k = Len(calls) => calls[k].row = nrows /\ raised = NoException
        /\ (~calls[k].ok /\ calls[k].attempt < Tries - 1) =>
              /\ k < Len(calls)
              /\ calls[k + 1].row = calls[k].row
              /\ calls[k + 1].attempt = calls[k].attempt + 1
        /\ (~calls[k].ok /\ calls[k].attempt = Tries - 1) =>
              /\ k = Len(calls)
              /\ raised = BackendError(k)
  /\ n = Cardinality({k \in DOMAIN calls : calls[k].ok})
  /\ raised # NoException => calls # <<>> /\ ~calls[Len(calls)].ok
  /\ (calls = <<>>) = (nrows = 0)
  /\ calls # <<>> => calls[1].row = 1 /\ calls[1].attempt = 0

\* C36: in _insert and in _update each row's write is attempted at most 3
\* times; after its first successful attempt the row is not attempted
\* again, is counted once, and the next row follows; when the third attempt
\* fails, its exception leaves the method and no later row is attempted
C36_PerRowRetry ==
  [][(pc = "load" /\ conn' # conn)
     => /\ RetryRule(conn'.calls,
                     Cardinality(QueryResult(snow, op.incremental_key, op.snowflake_query)),
                     conn'.commands, conn'.raised)
        /\ (conn'.raised # NoException) = (result'.status = "raised")]_vars

\* a load of two rows: the first saved at its third attempt, the second
\* failing three times, so that the method raised with one row counted
C36_Witness ==
  /\ pc = "idle"
  /\ result = [status |-> "raised", at |-> "load"]
  /\ Len(conn.calls) = 2 * Tries
  /\ conn.calls[Tries] = [row |-> 1, attempt |-> Tries - 1, ok |-> TRUE]
  /\ conn.commands = 1
  /\ conn.raised = BackendError(2 * Tries)
  /\ Cardinality(dynamo) = 1

\* what list() has collected, each item read through its reference
Collected ==
  [k \in DOMAIN file |->
     [row |-> hook.heap[file[k].row_dict], column_names |-> file[k].column_names]]

\* the fetches a result of n rows takes at the chunk size, the empty one included
FetchesFor(n, chunk_size) == (n + chunk_size - 1) \div chunk_size + 1

\* C37: when the generator has ended, the collected items are, in fetch
\* order and once each, the rows of the result as records from column name
\* to that row's value, each with the column-name list, whatever the chunk
\* size; and the generator has ended at the first empty fetch
C37_CollectedRows ==
  (pc = "done" /\ op.consumer = "list")
    => /\ Collected = [k \in DOMAIN snow |->
                         [row |-> zip(CursorColumns, snow[k]),
                          column_names |-> CursorColumns]]
       /\ conn.rows = <<>>
       /\ conn.fetches = FetchesFor(Len(snow), op.chunk_size)

\* the field the bulk file is to carry for a value of column c
ExpectedField(value, c) ==
  CASE value.kind = "None" -> <<>>
    [] c \in op.array_fields -> <<"{">> \o JoinItems(value.v) \o <<"}">>
    [] OTHER -> str(value)

\* C39: in the file written for the Postgres destination, a null in a column
\* of array_fields is the empty field, as a null in any other column is; an
\* array value is its elements in braces; a value of any other column is
\* written as it is
C39_ArrayFieldEncoding ==
  (op.consumer = "save" /\ op.destination_type = "postgres")
    => \A k \in DOMAIN file.lines :
          \A i \in DOMAIN CursorColumns :
             file.lines[k][i] = ExpectedField(snow[k][i], CursorColumns[i])

\* the names a promotion batch creates by re-creating constraints and indexes
Creates(batch) ==
  {k \in DOMAIN batch : batch[k].kind \in {"add_constraint", "create_index"}}

\* C38: the index list an introspection records is the table's indexes but
\* those named like one of its constraints, each once; and the full-swap
\* batch built from the recorded lists re-creates no object name twice
C38_IndexesExcludeConstraintNames ==
  [][/\ (pc = "metadata" /\ pc' = "create_tmp" /\ ~op.metadata_retrieved)
        => /\ {hook'.indexes[i].name : i \in DOMAIN hook'.indexes}
                = {ix.indexname : ix \in db.tables[LiveTable].indexes}
                    \ {c.conname : c \in db.tables[LiveTable].constraints}
           /\ \A i, j \in DOMAIN hook'.indexes :
                 hook'.indexes[i].name = hook'.indexes[j].name => i = j
     /\ FullSwapStands
        => \E batch \in {swap_db_tables_commands(LiveTable, op.insert_commands, hook)} :
             /\ \A j, k \in Creates(batch) : batch[j].name = batch[k].name => j = k
             /\ Cardinality(Creates(batch)) = Len(hook.constraints) + Len(hook.indexes)]_vars

\* a full swap stands before its batch on a table that has an index named
\* like its primary key and a plain index, which alone was recorded
C38_Witness ==
  /\ FullSwapStands
  /\ \E ix \in db.tables[LiveTable].indexes :
        \E c \in db.tables[LiveTable].constraints : ix.indexname = c.conname
  /\ Len(hook.indexes) = 1
  /\ hook.indexes[1].name = "orders_status_idx"
  /\ Len(hook.constraints) = 3

\* C40: when the extraction poke monitors has completed successfully and
\* poke returns, the value it returns is true, so that the caller's loop
\* ends at that poke
C40_PokeReturnsTrue ==
  [][(pc = "monitor" /\ pc' = "loop")
     => /\ snow.completion_time >= hook.start_time
        /\ snow.tap_exit_status = 0
        /\ result'.value = "True"]_vars

====
